---- MODULE Spec2Model ----
(***************************************************************************)
(* Verification model of the BiScore guide tooling (embrisa/biscore-addon) *)
(*                                                                         *)
(*   scripts/parse_wowhead_html.py     numeric-slot parser, cross-phase    *)
(*                                     merge and the per-spec phase loop   *)
(*   scripts/extract_wowhead_items.py  textual-slot extractor              *)
(*                                                                         *)
(* Each part of the program has its own specification over the shared      *)
(* variables; a specification leaves the variables of the other parts at   *)
(* their idle values.                                                      *)
(***************************************************************************)
EXTENDS Integers, Sequences, FiniteSets, TLC

VARIABLES
    \* merge_slot_maps called on two arbitrary maps
    prev_slots,      \* argument prev_slots
    curr_slots,      \* argument curr_slots
    merged,          \* the returned map
    mpc,             \* "call" before the call, "ret" after it
    \* the per-spec phase loop of parse_wowhead_html.main
    phase,           \* loop variable, 1..5 (6 = loop finished)
    prev_slot_map,   \* main's prev_slot_map
    profile,         \* per_class_profiles[class][profile]: phase -> slots
    phase_slots,     \* what parse_guide_slots returned for each phase so far
    \* section_slot_ids called on a heading and a section body
    heading,         \* the heading_text passed
    section_html,    \* the section_text passed
    target_slots,    \* the returned list of numeric slot ids
    spc,             \* "call" before the call, "ret" after it
    \* extract_wowhead_items.main on one saved guide page
    doc,             \* the guide as written, which the page was rendered from
    html_text,       \* the page read from args.input_html
    arg_guide_type,  \* args.guide_type
    page_markup,     \* main's markup
    page_lookup,     \* main's item_lookup
    grouped,         \* main's grouped
    epc,             \* position in main: start, markup, lookup, done, failed
    \* parse_wowhead_html.parse_guide_slots called on one guide page
    guide_doc,       \* the guide as written, which the page was rendered from
    page_form,       \* where the page carries it: markup, noscript, both
    guide_page,      \* the text read from guide_path
    slot_to_items,   \* the returned map
    ppc,             \* "call" before the call, "ret" after it
    \* batch_extract_and_report.load_guides on one directory
    input_dir,       \* the files of the directory: name and text
    guides,          \* load_guides' list of records
    html_paths,      \* sorted(input_dir.glob("*.html")), what the loop runs over
    load_idx,        \* the position of the loop in html_paths, 0 before it
    \* the phase loop of main with its objects: dicts and lists on a heap
    heap,            \* the objects allocated so far; an address is an index
    loop_pc,         \* "parse", "merge" or "record": the next step of the loop body
    loop_phase,      \* the loop variable phase
    slot_map_ref,    \* the address slot_map holds
    prev_slot_map_ref, \* the address prev_slot_map holds
    profile_refs,    \* phase -> the address recorded under "slots"
    recorded_slots,  \* phase -> the value of that map when it was recorded
    \* the header test of extract_by_slot on one header
    class_phrase,    \* the phrase the header is a writing of
    class_header,    \* header_name
    class_guide_type, \* guide_type
    class_slot,      \* slot_name
    class_kept,      \* slot_name in valid_slots
    cpc,             \* "call" before the test, "done" after it
    \* the three payload locators on one page
    payload_text,    \* the string the page was written from
    payload_form,    \* what follows the literal: "paren" or "guideBody"
    payload_page,    \* the page
    decode_out,      \* locator -> what it returned, for those that have run
    \* check_suspicious_data.check_spec on one spec
    min_slot_count,  \* argument min_slot_count
    max_slot_drop,   \* argument max_slot_drop
    max_rank_drop_pct, \* argument max_rank_drop_pct, in percent
    chk_phase,       \* the loop variable of the first loop, 6 after it
    chk_prev_slot_map, \* check_spec's prev_slot_map
    phase_maps,      \* phase -> slot_map
    findings,        \* the findings so far: type and phase
    chk_pc           \* "loop" in the first loop, "compare" after it, then "done"

mergeVars == <<prev_slots, curr_slots, merged, mpc>>
chainVars == <<phase, prev_slot_map, profile, phase_slots>>
slotVars == <<heading, section_html, target_slots, spc>>
extractVars == <<doc, html_text, arg_guide_type, page_markup, page_lookup, grouped, epc>>
parseVars == <<guide_doc, page_form, guide_page, slot_to_items, ppc>>
batchVars == <<input_dir, guides, html_paths, load_idx>>
heapVars == <<heap, loop_pc, loop_phase, slot_map_ref, prev_slot_map_ref, profile_refs,
              recorded_slots>>
classVars == <<class_phrase, class_header, class_guide_type, class_slot, class_kept, cpc>>
decodeVars == <<payload_text, payload_form, payload_page, decode_out>>
checkVars == <<min_slot_count, max_slot_drop, max_rank_drop_pct, chk_phase,
               chk_prev_slot_map, phase_maps, findings, chk_pc>>
vars == <<prev_slots, curr_slots, merged, mpc,
          phase, prev_slot_map, profile, phase_slots,
          heading, section_html, target_slots, spc,
          doc, html_text, arg_guide_type, page_markup, page_lookup, grouped, epc,
          guide_doc, page_form, guide_page, slot_to_items, ppc,
          input_dir, guides, html_paths, load_idx,
          heap, loop_pc, loop_phase, slot_map_ref, prev_slot_map_ref, profile_refs,
          recorded_slots,
          class_phrase, class_header, class_guide_type, class_slot, class_kept, cpc,
          payload_text, payload_form, payload_page, decode_out,
          min_slot_count, max_slot_drop, max_rank_drop_pct, chk_phase,
          chk_prev_slot_map, phase_maps, findings, chk_pc>>

(***************************************************************************)
(* Bounds                                                                  *)
(***************************************************************************)
MaxItem == 2          \* item ids are 1..MaxItem
MaxEntries == 2       \* total list entries of one argument map of the merge
MaxRanked == 2        \* length of one ranked list a guide yields per slot
MaxGuideEntries == 6  \* ranked entries of the five phase guides of a spec, in total
MaxWords == 3         \* words of a section heading
MaxRefs == 2          \* references in the item cell of a table row
MaxRows == 2          \* rows of the tables of a one-section guide
MaxSections == 2      \* pieces of a multi-section guide
MaxFiles == 2          \* files of one input directory
MaxPad == 1            \* spaces before and after a header name

ItemIds == 1..MaxItem
MergeSlotIds == {1, 2}     \* Head, Neck
ChainSlotIds == {1}        \* Head

(***************************************************************************)
(* Generic helpers                                                         *)
(***************************************************************************)
Range(s) == {s[i] : i \in DOMAIN s}

SeqsUpTo(S, n) == UNION {[1..k -> S] : k \in 0..n}

NoDup(s) == \A i, j \in DOMAIN s : s[i] = s[j] => i = j

EmptyMap == [x \in {} |-> <<>>]

\* the number of list entries of a map
MapEntries(m) ==
    LET RECURSIVE Sum(_)
        Sum(D) == IF D = {} THEN 0
                  ELSE LET s == CHOOSE s \in D : TRUE
                       IN  Len(m[s]) + Sum(D \ {s})
    IN  Sum(DOMAIN m)

\* dict.get(key, [])
Get(map, key) == IF key \in DOMAIN map THEN map[key] ELSE <<>>

(***************************************************************************)
(* Idle values of the parts a specification does not run                   *)
(***************************************************************************)
MergeIdle ==
    /\ prev_slots = <<>> /\ curr_slots = <<>> /\ merged = <<>> /\ mpc = "idle"

ChainIdle ==
    /\ phase = 0 /\ prev_slot_map = <<>> /\ profile = <<>> /\ phase_slots = <<>>

SlotIdle ==
    /\ heading = <<>> /\ section_html = <<>> /\ target_slots = <<>> /\ spc = "idle"

ExtractIdle ==
    /\ doc = <<>> /\ html_text = <<>> /\ arg_guide_type = "" /\ page_markup = <<>>
    /\ page_lookup = EmptyMap /\ grouped = <<>> /\ epc = "idle"

ParseIdle ==
    /\ guide_doc = <<>> /\ page_form = "" /\ guide_page = <<>>
    /\ slot_to_items = EmptyMap /\ ppc = "idle"

BatchIdle ==
    /\ input_dir = {} /\ guides = <<>> /\ html_paths = <<>> /\ load_idx = 0

HeapIdle ==
    /\ heap = <<>> /\ loop_pc = "idle" /\ loop_phase = 0 /\ slot_map_ref = 0
    /\ prev_slot_map_ref = 0 /\ profile_refs = EmptyMap /\ recorded_slots = EmptyMap

ClassifyIdle ==
    /\ class_phrase = <<>> /\ class_header = <<>> /\ class_guide_type = ""
    /\ class_slot = <<>> /\ class_kept = FALSE /\ cpc = "idle"

DecodeIdle ==
    /\ payload_text = <<>> /\ payload_form = "" /\ payload_page = <<>>
    /\ decode_out = EmptyMap

CheckIdle ==
    /\ min_slot_count = 0 /\ max_slot_drop = 0 /\ max_rank_drop_pct = 0
    /\ chk_phase = 0 /\ chk_prev_slot_map = EmptyMap /\ phase_maps = EmptyMap
    /\ findings = <<>> /\ chk_pc = "idle"

(***************************************************************************)
(* Text: a Python str is a sequence of one-character strings               *)
(***************************************************************************)
UpperChars == <<"A", "B", "C", "D", "E", "F", "G", "H", "I", "J", "K", "L", "M", "N", "O", "P", "Q", "R", "S", "T", "U", "V", "W", "X", "Y", "Z">>
LowerChars == <<"a", "b", "c", "d", "e", "f", "g", "h", "i", "j", "k", "l", "m", "n", "o", "p", "q", "r", "s", "t", "u", "v", "w", "x", "y", "z">>

\* str.lower() on one character
LowerChar(c) ==
    IF \E i \in DOMAIN UpperChars : UpperChars[i] = c
    THEN LowerChars[CHOOSE i \in DOMAIN UpperChars : UpperChars[i] = c]
    ELSE c

\* str.lower()
Lower(text) == [i \in DOMAIN text |-> LowerChar(text[i])]

\* needle in text
Contains(needle, text) ==
    \E i \in 1..(Len(text) - Len(needle) + 1) :
        SubSeq(text, i, i + Len(needle) - 1) = needle

\* " ".join(words)
RECURSIVE JoinWords(_)
JoinWords(words) ==
    IF words = <<>> THEN <<>>
    ELSE IF Len(words) = 1 THEN words[1]
    ELSE words[1] \o <<" ">> \o JoinWords(Tail(words))


(***************************************************************************)
(* parse_wowhead_html.section_slot_ids                                     *)
(***************************************************************************)
has_dual_wield(lowered) ==
    \/ Contains(<<"d", "u", "a", "l", "-", "w", "i", "e", "l", "d">>, lowered)
    \/ Contains(<<"d", "u", "a", "l", " ", "w", "i", "e", "l", "d">>, lowered)

has_offhand(lowered, section_lowered) ==
    \/ Contains(<<"o", "f", "f", "-", "h", "a", "n", "d">>, lowered)
    \/ Contains(<<"o", "f", "f", " ", "h", "a", "n", "d">>, lowered)
    \/ Contains(<<"o", "f", "f", "h", "a", "n", "d">>, lowered)
    \/ Contains(<<"o", "f", "f", "h", "a", "n", "d", "s">>, lowered)
    \/ Contains(<<"s", "h", "i", "e", "l", "d">>, lowered)
    \/ Contains(<<"o", "f", "f", "-", "h", "a", "n", "d">>, section_lowered)
    \/ Contains(<<"o", "f", "f", " ", "h", "a", "n", "d">>, section_lowered)
    \/ Contains(<<"o", "f", "f", "h", "a", "n", "d">>, section_lowered)
    \/ Contains(<<"o", "f", "f", "h", "a", "n", "d", "s">>, section_lowered)

has_mainhand(lowered, section_lowered) ==
    \/ Contains(<<"w", "e", "a", "p", "o", "n">>, lowered)
    \/ Contains(<<"m", "a", "i", "n", " ", "h", "a", "n", "d">>, lowered)
    \/ Contains(<<"m", "a", "i", "n", "-", "h", "a", "n", "d">>, lowered)
    \/ Contains(<<"m", "a", "i", "n", "h", "a", "n", "d">>, lowered)
    \/ Contains(<<"m", "a", "i", "n", "h", "a", "n", "d", "s">>, lowered)
    \/ Contains(<<"m", "a", "i", "n", " ", "h", "a", "n", "d">>, section_lowered)
    \/ Contains(<<"m", "a", "i", "n", "-", "h", "a", "n", "d">>, section_lowered)
    \/ Contains(<<"m", "a", "i", "n", "h", "a", "n", "d">>, section_lowered)

is_weapon_hand_section(lowered) ==
    \/ has_dual_wield(lowered)
    \/ Contains(<<"w", "e", "a", "p", "o", "n">>, lowered)
    \/ Contains(<<"h", "a", "n", "d", "e", "d">>, lowered)
    \/ Contains(<<"o", "n", "e", "-", "h", "a", "n", "d">>, lowered)
    \/ Contains(<<"o", "n", "e", " ", "h", "a", "n", "d">>, lowered)
    \/ Contains(<<"1", "-", "h", "a", "n", "d">>, lowered)
    \/ Contains(<<"1", " ", "h", "a", "n", "d">>, lowered)
    \/ Contains(<<"t", "w", "o", "-", "h", "a", "n", "d">>, lowered)
    \/ Contains(<<"t", "w", "o", " ", "h", "a", "n", "d">>, lowered)
    \/ Contains(<<"2", "-", "h", "a", "n", "d">>, lowered)
    \/ Contains(<<"2", " ", "h", "a", "n", "d">>, lowered)
    \/ Contains(<<"m", "a", "i", "n", " ", "h", "a", "n", "d">>, lowered)
    \/ Contains(<<"o", "f", "f", "-", "h", "a", "n", "d">>, lowered)
    \/ Contains(<<"o", "f", "f", " ", "h", "a", "n", "d">>, lowered)
    \/ Contains(<<"m", "a", "i", "n", "h", "a", "n", "d">>, lowered)
    \/ Contains(<<"o", "f", "f", "h", "a", "n", "d">>, lowered)
    \/ Contains(<<"m", "a", "i", "n", "h", "a", "n", "d", "s">>, lowered)
    \/ Contains(<<"o", "f", "f", "h", "a", "n", "d", "s">>, lowered)

\* mutation: the off-hand test comes before the test for both cues
weapon_slot_ids_OffhandFirst(lowered, section_lowered) ==
    IF has_dual_wield(lowered) THEN <<16, 17>>
    ELSE IF has_offhand(lowered, section_lowered) THEN <<17>>
    ELSE IF has_offhand(lowered, section_lowered) /\ has_mainhand(lowered, section_lowered)
         THEN <<16, 17>>
    ELSE IF has_mainhand(lowered, section_lowered) THEN <<16>>
    ELSE <<>>

\* lines 212-222: the weapon rules, reached when no other rule returned
weapon_slot_ids(lowered, section_lowered) ==
    IF has_dual_wield(lowered) THEN <<16, 17>>
    ELSE IF has_offhand(lowered, section_lowered) /\ has_mainhand(lowered, section_lowered)
         THEN <<16, 17>>
    ELSE IF has_offhand(lowered, section_lowered) THEN <<17>>
    ELSE IF has_mainhand(lowered, section_lowered) /\ has_offhand(lowered, section_lowered)
         THEN <<16, 17>>
    ELSE IF has_mainhand(lowered, section_lowered) THEN <<16>>
    ELSE <<>>

\* lines 208-211: the two-slot headings
dual_slot_ids(lowered) ==
    IF Contains(<<"r", "i", "n", "g">>, lowered) THEN <<11, 12>>
    ELSE IF Contains(<<"t", "r", "i", "n", "k", "e", "t">>, lowered) THEN <<13, 14>>
    ELSE <<>>

\* mutation: the relic rule comes last, after the weapon rules
section_slot_ids_RangedLast(heading_text, section_text) ==
    LET lowered == Lower(heading_text)
        section_lowered == Lower(section_text)
    IN  IF Contains(<<"h", "e", "a", "d">>, lowered) THEN <<1>>
        ELSE IF Contains(<<"n", "e", "c", "k">>, lowered) THEN <<2>>
        ELSE IF Contains(<<"s", "h", "o", "u", "l", "d", "e", "r">>, lowered) THEN <<3>>
        ELSE IF Contains(<<"b", "a", "c", "k">>, lowered)
                \/ Contains(<<"c", "l", "o", "a", "k">>, lowered) THEN <<15>>
        ELSE IF Contains(<<"c", "h", "e", "s", "t">>, lowered) THEN <<5>>
        ELSE IF Contains(<<"w", "r", "i", "s", "t">>, lowered) THEN <<9>>
        ELSE IF /\ (Contains(<<"h", "a", "n", "d">>, lowered)
                    \/ Contains(<<"g", "l", "o", "v", "e">>, lowered))
                /\ ~is_weapon_hand_section(lowered) THEN <<10>>
        ELSE IF Contains(<<"w", "a", "i", "s", "t">>, lowered)
                \/ Contains(<<"b", "e", "l", "t">>, lowered) THEN <<6>>
        ELSE IF Contains(<<"l", "e", "g">>, lowered) THEN <<7>>
        ELSE IF Contains(<<"f", "e", "e", "t">>, lowered)
                \/ Contains(<<"b", "o", "o", "t">>, lowered) THEN <<8>>
        ELSE IF dual_slot_ids(lowered) # <<>> THEN dual_slot_ids(lowered)
        ELSE IF weapon_slot_ids(lowered, section_lowered) # <<>>
             THEN weapon_slot_ids(lowered, section_lowered)
        ELSE IF \/ Contains(<<"i", "d", "o", "l">>, lowered)
                \/ Contains(<<"r", "e", "l", "i", "c">>, lowered)
                \/ Contains(<<"t", "o", "t", "e", "m">>, lowered)
                \/ Contains(<<"l", "i", "b", "r", "a", "m">>, lowered)
                \/ Contains(<<"r", "a", "n", "g", "e", "d">>, lowered)
                \/ Contains(<<"w", "a", "n", "d">>, lowered)
             THEN <<18>>
        ELSE <<>>

section_slot_ids(heading_text, section_text) ==
    LET lowered == Lower(heading_text)
        section_lowered == Lower(section_text)
    IN  IF Contains(<<"h", "e", "a", "d">>, lowered) THEN <<1>>
        ELSE IF Contains(<<"n", "e", "c", "k">>, lowered) THEN <<2>>
        ELSE IF Contains(<<"s", "h", "o", "u", "l", "d", "e", "r">>, lowered) THEN <<3>>
        ELSE IF Contains(<<"b", "a", "c", "k">>, lowered)
                \/ Contains(<<"c", "l", "o", "a", "k">>, lowered) THEN <<15>>
        ELSE IF Contains(<<"c", "h", "e", "s", "t">>, lowered) THEN <<5>>
        ELSE IF Contains(<<"w", "r", "i", "s", "t">>, lowered) THEN <<9>>
        ELSE IF \/ Contains(<<"i", "d", "o", "l">>, lowered)
                \/ Contains(<<"r", "e", "l", "i", "c">>, lowered)
                \/ Contains(<<"t", "o", "t", "e", "m">>, lowered)
                \/ Contains(<<"l", "i", "b", "r", "a", "m">>, lowered)
                \/ Contains(<<"r", "a", "n", "g", "e", "d">>, lowered)
                \/ Contains(<<"w", "a", "n", "d">>, lowered)
             THEN <<18>>
        ELSE IF /\ (Contains(<<"h", "a", "n", "d">>, lowered)
                    \/ Contains(<<"g", "l", "o", "v", "e">>, lowered))
                /\ ~is_weapon_hand_section(lowered) THEN <<10>>
        ELSE IF Contains(<<"w", "a", "i", "s", "t">>, lowered)
                \/ Contains(<<"b", "e", "l", "t">>, lowered) THEN <<6>>
        ELSE IF Contains(<<"l", "e", "g">>, lowered) THEN <<7>>
        ELSE IF Contains(<<"f", "e", "e", "t">>, lowered)
                \/ Contains(<<"b", "o", "o", "t">>, lowered) THEN <<8>>
        ELSE IF dual_slot_ids(lowered) # <<>> THEN dual_slot_ids(lowered)
        ELSE weapon_slot_ids(lowered, section_lowered)

(***************************************************************************)
(* Markup as a sequence of tokens.  A token is a tag, a quote, a backslash *)
(* or a run of text; s is the text of a run, n the id of a reference.      *)
(*   h3toc   [h3 toc=        rb      ]           /h3     [/h3]             *)
(*   h4      [h4]            /h4     [/h4]                                 *)
(*   table   [table]         /table  [/table]                              *)
(*   tr      [tr]            /tr     [/tr]                                 *)
(*   td      [td]            /td     [/td]                                 *)
(*   item    [item=n]        spell   [spell=n]                             *)
(*   q       "               bs      \           txt     s                 *)
(* and, outside the payload, on the page:                                  *)
(*   printHtml   WH.markup.printHtml(       comma   ,      rparen   )      *)
(***************************************************************************)
Tok(kind) == [k |-> kind, s |-> <<>>, n |-> 0]
Txt(text) == [k |-> "txt", s |-> text, n |-> 0]
Ref(kind, id) == [k |-> kind, s |-> <<>>, n |-> id]

\* tokens that are text, not part of a tag
IsPlain(t) == t.k \in {"txt", "q", "bs"}

\* tokens that hold a "]"
HasClose(t) == t.k \notin {"txt", "q", "bs", "h3toc"}

\* the characters of a token, as far as the text functions read them
TokText(t) ==
    IF t.k = "txt" THEN t.s
    ELSE IF t.k = "q" THEN <<"\"">>
    ELSE IF t.k = "bs" THEN <<"\\">>
    ELSE IF t.k = "rb" THEN <<"]">>
    ELSE IF t.k \in {"item", "spell"} THEN <<"[", t.k, "=", ToString(t.n), "]">>
    ELSE IF t.k = "link" THEN <<"<a href=/tbc/item=", ToString(t.n), ">">>
    ELSE IF t.k \in {"<h>", "</h>", "<table>", "</table>", "<tr>", "</tr>", "<td>", "</td>"}
         THEN <<t.k>>
    ELSE <<"[", t.k, "]">>

RECURSIVE TextOf(_)
TextOf(toks) ==
    IF toks = <<>> THEN <<>> ELSE TokText(Head(toks)) \o TextOf(Tail(toks))

\* the least index i >= from with toks[i].k = kind, 0 when there is none
RECURSIVE FindKind(_, _, _)
FindKind(toks, kind, from) ==
    IF from > Len(toks) THEN 0
    ELSE IF toks[from].k = kind THEN from
    ELSE FindKind(toks, kind, from + 1)

\* re.finditer of  OPEN(.*?)CLOSE : the <<start, end>> token indices of the
\* matches, left to right, each ending at the first CLOSE after its OPEN
RECURSIVE Blocks(_, _, _, _)
Blocks(toks, open, close, from) ==
    LET i == FindKind(toks, open, from)
        e == IF i = 0 THEN 0 ELSE FindKind(toks, close, i + 1)
    IN  IF i = 0 \/ e = 0 THEN <<>>
        ELSE <<<<i, e>>>> \o Blocks(toks, open, close, e + 1)

\* group(1) of the matches of Blocks
BlockBodies(toks, open, close) ==
    LET b == Blocks(toks, open, close, 1)
    IN  [i \in DOMAIN b |-> SubSeq(toks, b[i][1] + 1, b[i][2] - 1)]

(***************************************************************************)
(* extract_wowhead_items: text helpers                                     *)
(***************************************************************************)
Whitespace == {" ", "\n", "\r", "\t"}

\* WS_RE.sub(" ", text): every run of whitespace becomes one space
RECURSIVE CollapseWS(_)
CollapseWS(text) ==
    IF text = <<>> THEN <<>>
    ELSE IF Head(text) \in Whitespace
         THEN IF Len(text) >= 2 /\ text[2] \in Whitespace
              THEN CollapseWS(Tail(text))
              ELSE <<" ">> \o CollapseWS(Tail(text))
    ELSE <<Head(text)>> \o CollapseWS(Tail(text))

\* str.strip()
RECURSIVE Strip(_)
Strip(text) ==
    IF text = <<>> THEN <<>>
    ELSE IF Head(text) \in Whitespace THEN Strip(Tail(text))
    ELSE IF text[Len(text)] \in Whitespace THEN Strip(SubSeq(text, 1, Len(text) - 1))
    ELSE text

\* TAG_RE.sub("", text): a tag runs from its "[" to the next "]"
RECURSIVE RemoveTags(_)
RemoveTags(toks) ==
    IF toks = <<>> THEN <<>>
    ELSE IF Head(toks).k = "h3toc"
         THEN LET close == CHOOSE i \in 1..(Len(toks) + 1) :
                               /\ i > 1
                               /\ i <= Len(toks) => HasClose(toks[i])
                               /\ \A j \in 2..(i - 1) : ~HasClose(toks[j])
              IN  IF close > Len(toks) THEN toks
                  ELSE RemoveTags(SubSeq(toks, close + 1, Len(toks)))
    ELSE IF IsPlain(Head(toks)) \/ Head(toks).k = "rb"
         THEN <<Head(toks)>> \o RemoveTags(Tail(toks))
    ELSE RemoveTags(Tail(toks))

\* extract_wowhead_items.clean_text
clean_text(toks) == Strip(CollapseWS(TextOf(RemoveTags(toks))))

\* the start of the leftmost match of  \s+for\s+.+$  (IGNORECASE), 0 if none
ForClauseStart(text) ==
    LET IsStart(i) ==
            /\ text[i] \in Whitespace
            /\ \E j \in i..Len(text) :
                   /\ \A x \in i..j : text[x] \in Whitespace
                   /\ j + 4 < Len(text)
                   /\ Lower(SubSeq(text, j + 1, j + 3)) = <<"f", "o", "r">>
                   /\ \E m \in (j + 4)..(Len(text) - 1) :
                          /\ \A x \in (j + 4)..m : text[x] \in Whitespace
                          /\ \A x \in (m + 1)..Len(text) : text[x] # "\n"
        starts == {i \in DOMAIN text : IsStart(i)}
    IN  IF starts = {} THEN 0
        ELSE CHOOSE i \in starts : \A x \in starts : i <= x

\* the alias dict of normalize_slot: <<key, canonical slot>>
SlotAlias ==
    <<
      <<<<"s", "h", "o", "u", "l", "d", "e", "r">>, <<"S", "h", "o", "u", "l", "d", "e", "r", "s">>>>,
      <<<<"s", "h", "o", "u", "l", "d", "e", "r", "s">>, <<"S", "h", "o", "u", "l", "d", "e", "r", "s">>>>,
      <<<<"b", "a", "c", "k">>, <<"B", "a", "c", "k">>>>,
      <<<<"c", "h", "e", "s", "t">>, <<"C", "h", "e", "s", "t">>>>,
      <<<<"w", "r", "i", "s", "t">>, <<"W", "r", "i", "s", "t">>>>,
      <<<<"w", "r", "i", "s", "t", "s">>, <<"W", "r", "i", "s", "t">>>>,
      <<<<"h", "a", "n", "d", "s">>, <<"H", "a", "n", "d", "s">>>>,
      <<<<"h", "a", "n", "d">>, <<"H", "a", "n", "d", "s">>>>,
      <<<<"w", "a", "i", "s", "t">>, <<"W", "a", "i", "s", "t">>>>,
      <<<<"l", "e", "g", "s">>, <<"L", "e", "g", "s">>>>,
      <<<<"f", "e", "e", "t">>, <<"F", "e", "e", "t">>>>,
      <<<<"n", "e", "c", "k">>, <<"N", "e", "c", "k">>>>,
      <<<<"h", "e", "a", "d">>, <<"H", "e", "a", "d">>>>,
      <<<<"r", "i", "n", "g">>, <<"R", "i", "n", "g", "s">>>>,
      <<<<"r", "i", "n", "g", "s">>, <<"R", "i", "n", "g", "s">>>>,
      <<<<"f", "i", "n", "g", "e", "r">>, <<"R", "i", "n", "g", "s">>>>,
      <<<<"f", "i", "n", "g", "e", "r", "s">>, <<"R", "i", "n", "g", "s">>>>,
      <<<<"t", "r", "i", "n", "k", "e", "t">>, <<"T", "r", "i", "n", "k", "e", "t", "s">>>>,
      <<<<"t", "r", "i", "n", "k", "e", "t", "s">>, <<"T", "r", "i", "n", "k", "e", "t", "s">>>>,
      <<<<"w", "e", "a", "p", "o", "n">>, <<"W", "e", "a", "p", "o", "n", "s">>>>,
      <<<<"w", "e", "a", "p", "o", "n", "s">>, <<"W", "e", "a", "p", "o", "n", "s">>>>,
      <<<<"1", "-", "h", "a", "n", "d", "e", "d", " ", "w", "e", "a", "p", "o", "n">>, <<"W", "e", "a", "p", "o", "n", "s">>>>,
      <<<<"1", "-", "h", "a", "n", "d", "e", "d", " ", "w", "e", "a", "p", "o", "n", "s">>, <<"W", "e", "a", "p", "o", "n", "s">>>>,
      <<<<"1", "h", "a", "n", "d", "e", "d", " ", "w", "e", "a", "p", "o", "n">>, <<"W", "e", "a", "p", "o", "n", "s">>>>,
      <<<<"1", "h", "a", "n", "d", "e", "d", " ", "w", "e", "a", "p", "o", "n", "s">>, <<"W", "e", "a", "p", "o", "n", "s">>>>,
      <<<<"o", "n", "e", "-", "h", "a", "n", "d", "e", "d", " ", "w", "e", "a", "p", "o", "n">>, <<"W", "e", "a", "p", "o", "n", "s">>>>,
      <<<<"o", "n", "e", "-", "h", "a", "n", "d", "e", "d", " ", "w", "e", "a", "p", "o", "n", "s">>, <<"W", "e", "a", "p", "o", "n", "s">>>>,
      <<<<"1", "h", " ", "w", "e", "a", "p", "o", "n", "s">>, <<"M", "a", "i", "n", "-", "H", "a", "n", "d">>>>,
      <<<<"2", "h", " ", "w", "e", "a", "p", "o", "n", "s">>, <<"M", "a", "i", "n", "-", "H", "a", "n", "d">>>>,
      <<<<"o", "f", "f", "-", "h", "a", "n", "d">>, <<"O", "f", "f", "-", "H", "a", "n", "d">>>>,
      <<<<"o", "f", "f", "-", "h", "a", "n", "d", "s">>, <<"O", "f", "f", "-", "H", "a", "n", "d">>>>,
      <<<<"o", "f", "f", " ", "h", "a", "n", "d">>, <<"O", "f", "f", "-", "H", "a", "n", "d">>>>,
      <<<<"o", "f", "f", "h", "a", "n", "d", "s">>, <<"O", "f", "f", "-", "H", "a", "n", "d">>>>,
      <<<<"o", "f", "f", "h", "a", "n", "d", "s", " ", "a", "n", "d", " ", "s", "h", "i", "e", "l", "d", "s">>, <<"O", "f", "f", "-", "H", "a", "n", "d">>>>,
      <<<<"o", "f", "f", "-", "h", "a", "n", "d", "s", " ", "a", "n", "d", " ", "s", "h", "i", "e", "l", "d", "s">>, <<"O", "f", "f", "-", "H", "a", "n", "d">>>>,
      <<<<"s", "h", "i", "e", "l", "d", "s", " ", "/", " ", "o", "f", "f", "-", "h", "a", "n", "d", "s">>, <<"O", "f", "f", "-", "H", "a", "n", "d">>>>,
      <<<<"s", "h", "i", "e", "l", "d", "s", " ", "&", " ", "o", "f", "f", "h", "a", "n", "d", "s">>, <<"O", "f", "f", "-", "H", "a", "n", "d">>>>,
      <<<<"m", "a", "i", "n", "-", "h", "a", "n", "d">>, <<"M", "a", "i", "n", "-", "H", "a", "n", "d">>>>,
      <<<<"m", "a", "i", "n", " ", "h", "a", "n", "d">>, <<"M", "a", "i", "n", "-", "H", "a", "n", "d">>>>,
      <<<<"m", "a", "i", "n", "-", "h", "a", "n", "d", "s">>, <<"M", "a", "i", "n", "-", "H", "a", "n", "d">>>>,
      <<<<"t", "o", "t", "e", "m">>, <<"T", "o", "t", "e", "m", "s">>>>,
      <<<<"t", "o", "t", "e", "m", "s">>, <<"T", "o", "t", "e", "m", "s">>>>,
      <<<<"i", "d", "o", "l">>, <<"I", "d", "o", "l", "s">>>>,
      <<<<"i", "d", "o", "l", "s">>, <<"I", "d", "o", "l", "s">>>>,
      <<<<"l", "i", "b", "r", "a", "m">>, <<"L", "i", "b", "r", "a", "m", "s">>>>,
      <<<<"l", "i", "b", "r", "a", "m", "s">>, <<"L", "i", "b", "r", "a", "m", "s">>>>,
      <<<<"r", "a", "n", "g", "e", "d">>, <<"R", "a", "n", "g", "e", "d">>>>
    >>

\* dict.get(key, default) on a sequence of <<key, value>> pairs
Lookup(table, key, default) ==
    IF \E i \in DOMAIN table : table[i][1] = key
    THEN table[CHOOSE i \in DOMAIN table : table[i][1] = key][2]
    ELSE default

normalize_slot(raw) ==
    LET stripped == Strip(raw)
        at == ForClauseStart(stripped)
        cut == IF at = 0 THEN stripped ELSE SubSeq(stripped, 1, at - 1)
        cleaned == Strip(CollapseWS(cut))
    IN  Lookup(SlotAlias, Lower(cleaned), cleaned)

VALID_SLOTS ==
    {<<"H", "e", "a", "d">>, <<"S", "h", "o", "u", "l", "d", "e", "r", "s">>, <<"B", "a", "c", "k">>, <<"C", "h", "e", "s", "t">>, <<"W", "r", "i", "s", "t">>, <<"H", "a", "n", "d", "s">>, <<"W", "a", "i", "s", "t">>,
     <<"L", "e", "g", "s">>, <<"F", "e", "e", "t">>, <<"N", "e", "c", "k">>, <<"R", "i", "n", "g", "s">>, <<"T", "r", "i", "n", "k", "e", "t", "s">>, <<"W", "e", "a", "p", "o", "n", "s">>, <<"O", "f", "f", "-", "H", "a", "n", "d">>,
     <<"M", "a", "i", "n", "-", "H", "a", "n", "d">>, <<"T", "o", "t", "e", "m", "s">>, <<"I", "d", "o", "l", "s">>, <<"L", "i", "b", "r", "a", "m", "s">>, <<"R", "a", "n", "g", "e", "d">>}

ENHANCEMENT_SLOT_ALIASES ==
    <<
      <<<<"h", "e", "a", "d", " ", "e", "n", "c", "h", "a", "n", "t">>, <<"H", "e", "a", "d">>>>,
      <<<<"s", "h", "o", "u", "l", "d", "e", "r", " ", "e", "n", "c", "h", "a", "n", "t">>, <<"S", "h", "o", "u", "l", "d", "e", "r", "s">>>>,
      <<<<"c", "l", "o", "a", "k", " ", "e", "n", "c", "h", "a", "n", "t">>, <<"B", "a", "c", "k">>>>,
      <<<<"c", "h", "e", "s", "t", " ", "e", "n", "c", "h", "a", "n", "t">>, <<"C", "h", "e", "s", "t">>>>,
      <<<<"b", "r", "a", "c", "e", "r", " ", "e", "n", "c", "h", "a", "n", "t">>, <<"W", "r", "i", "s", "t">>>>,
      <<<<"g", "l", "o", "v", "e", "s", " ", "e", "n", "c", "h", "a", "n", "t">>, <<"H", "a", "n", "d", "s">>>>,
      <<<<"l", "e", "g", "s", " ", "e", "n", "c", "h", "a", "n", "t">>, <<"L", "e", "g", "s">>>>,
      <<<<"l", "e", "g", " ", "e", "n", "c", "h", "a", "n", "t">>, <<"L", "e", "g", "s">>>>,
      <<<<"b", "o", "o", "t", "s", " ", "e", "n", "c", "h", "a", "n", "t">>, <<"F", "e", "e", "t">>>>,
      <<<<"w", "e", "a", "p", "o", "n", " ", "e", "n", "c", "h", "a", "n", "t">>, <<"W", "e", "a", "p", "o", "n", "s">>>>,
      <<<<"m", "a", "i", "n", "-", "h", "a", "n", "d", " ", "e", "n", "c", "h", "a", "n", "t">>, <<"M", "a", "i", "n", "-", "H", "a", "n", "d">>>>,
      <<<<"o", "f", "f", "-", "h", "a", "n", "d", " ", "e", "n", "c", "h", "a", "n", "t">>, <<"O", "f", "f", "-", "H", "a", "n", "d">>>>,
      <<<<"r", "i", "n", "g", "s", " ", "e", "n", "c", "h", "a", "n", "t">>, <<"R", "i", "n", "g", "s">>>>,
      <<<<"r", "i", "n", "g", " ", "e", "n", "c", "h", "a", "n", "t">>, <<"R", "i", "n", "g", "s">>>>
    >>

GEM_GROUP_ALIASES ==
    <<
      <<<<"b", "e", "s", "t", " ", "m", "e", "t", "a">>, <<"M", "e", "t", "a">>>>,
      <<<<"b", "e", "s", "t", " ", "m", "e", "t", "a", " ", "g", "e", "m", "s">>, <<"M", "e", "t", "a">>>>,
      <<<<"m", "e", "t", "a", " ", "g", "e", "m">>, <<"M", "e", "t", "a">>>>,
      <<<<"m", "e", "t", "a", " ", "g", "e", "m", "s">>, <<"M", "e", "t", "a">>>>,
      <<<<"b", "e", "s", "t", " ", "r", "e", "d">>, <<"R", "e", "d">>>>,
      <<<<"b", "e", "s", "t", " ", "r", "e", "d", " ", "g", "e", "m", "s">>, <<"R", "e", "d">>>>,
      <<<<"r", "e", "d", " ", "g", "e", "m">>, <<"R", "e", "d">>>>,
      <<<<"r", "e", "d", " ", "g", "e", "m", "s">>, <<"R", "e", "d">>>>,
      <<<<"b", "e", "s", "t", " ", "y", "e", "l", "l", "o", "w">>, <<"Y", "e", "l", "l", "o", "w">>>>,
      <<<<"b", "e", "s", "t", " ", "y", "e", "l", "l", "o", "w", " ", "g", "e", "m", "s">>, <<"Y", "e", "l", "l", "o", "w">>>>,
      <<<<"y", "e", "l", "l", "o", "w", " ", "g", "e", "m">>, <<"Y", "e", "l", "l", "o", "w">>>>,
      <<<<"y", "e", "l", "l", "o", "w", " ", "g", "e", "m", "s">>, <<"Y", "e", "l", "l", "o", "w">>>>,
      <<<<"b", "e", "s", "t", " ", "b", "l", "u", "e">>, <<"B", "l", "u", "e">>>>,
      <<<<"b", "e", "s", "t", " ", "b", "l", "u", "e", " ", "g", "e", "m", "s">>, <<"B", "l", "u", "e">>>>,
      <<<<"b", "l", "u", "e", " ", "g", "e", "m">>, <<"B", "l", "u", "e">>>>,
      <<<<"b", "l", "u", "e", " ", "g", "e", "m", "s">>, <<"B", "l", "u", "e">>>>
    >>

VALID_ENHANCEMENT_BUCKETS ==
    {<<"M", "e", "t", "a">>, <<"R", "e", "d">>, <<"Y", "e", "l", "l", "o", "w">>, <<"B", "l", "u", "e">>} \cup VALID_SLOTS

EnchantSuffix == <<" ", "e", "n", "c", "h", "a", "n", "t">>

\* mutation: no retry through the slot aliases
_normalize_enhancement_bucket_NoRetry(raw) ==
    LET cleaned == Lower(Strip(CollapseWS(Strip(raw))))
    IN  IF \E i \in DOMAIN GEM_GROUP_ALIASES : GEM_GROUP_ALIASES[i][1] = cleaned
        THEN Lookup(GEM_GROUP_ALIASES, cleaned, cleaned)
        ELSE Lookup(ENHANCEMENT_SLOT_ALIASES, cleaned, Strip(raw))

_normalize_enhancement_bucket(raw) ==
    LET cleaned == Lower(Strip(CollapseWS(Strip(raw))))
        n == Len(cleaned) - Len(EnchantSuffix)
        maybe_slot == normalize_slot(SubSeq(cleaned, 1, n))
    IN  IF \E i \in DOMAIN GEM_GROUP_ALIASES : GEM_GROUP_ALIASES[i][1] = cleaned
        THEN Lookup(GEM_GROUP_ALIASES, cleaned, cleaned)
        ELSE IF \E i \in DOMAIN ENHANCEMENT_SLOT_ALIASES :
                    ENHANCEMENT_SLOT_ALIASES[i][1] = cleaned
        THEN Lookup(ENHANCEMENT_SLOT_ALIASES, cleaned, cleaned)
        ELSE IF n >= 0 /\ SubSeq(cleaned, n + 1, Len(cleaned)) = EnchantSuffix
                /\ maybe_slot \in VALID_SLOTS
        THEN maybe_slot
        ELSE Strip(raw)

(***************************************************************************)
(* extract_wowhead_items: locating the payload and the item names          *)
(***************************************************************************)
\* Python's None (no looked-up name is ever the empty string)
None == <<>>

\* json.loads of the matched literal, without its quotes: a backslash
\* escapes the quote, the backslash and n, r, t, / of a following text run;
\* any other escape is an error (ok = FALSE)
RECURSIVE json_loads(_)
json_loads(lit) ==
    IF lit = <<>> THEN [ok |-> TRUE, toks |-> <<>>]
    ELSE IF Head(lit).k # "bs"
         THEN LET rest == json_loads(Tail(lit))
              IN  [ok |-> rest.ok, toks |-> <<Head(lit)>> \o rest.toks]
    ELSE IF Len(lit) < 2 THEN [ok |-> FALSE, toks |-> <<>>]
    ELSE LET c == lit[2]
             rest == json_loads(SubSeq(lit, 3, Len(lit)))
             ch == IF c.k = "txt" /\ c.s # <<>> THEN c.s[1] ELSE ""
             dec == IF c.k \in {"q", "bs"} \/ ch = "/" THEN <<c>>
                    ELSE IF ch = "n" THEN <<Txt(<<"\n">> \o Tail(c.s))>>
                    ELSE IF ch = "r" THEN <<Txt(<<"\r">> \o Tail(c.s))>>
                    ELSE IF ch = "t" THEN <<Txt(<<"\t">> \o Tail(c.s))>>
                    ELSE <<>>
         IN  [ok |-> rest.ok /\ dec # <<>>, toks |-> dec \o rest.toks]

\* the end of  (?:\\.|[^"\\])*"  scanned from index from: the index of the
\* closing quote, 0 when the literal is not closed
RECURSIVE LiteralEnd(_, _)
LiteralEnd(toks, from) ==
    IF from > Len(toks) THEN 0
    ELSE IF toks[from].k = "q" THEN from
    ELSE IF toks[from].k = "bs"
         THEN IF from + 1 > Len(toks) THEN 0 ELSE LiteralEnd(toks, from + 2)
    ELSE LiteralEnd(toks, from + 1)

\* PRINT_HTML_RE.search from token from: <<group(1) without its quotes>> of
\* the first WH.markup.printHtml("..." followed by , or ); <<>> if none
RECURSIVE PrintHtmlSearch(_, _)
PrintHtmlSearch(script, from) ==
    LET i == FindKind(script, "printHtml", from)
        e == IF i = 0 \/ i + 1 > Len(script) \/ script[i + 1].k # "q" THEN 0
             ELSE LiteralEnd(script, i + 2)
    IN  IF i = 0 THEN <<>>
        ELSE IF e # 0 /\ e + 1 <= Len(script) /\ script[e + 1].k \in {"comma", "rparen"}
        THEN <<SubSeq(script, i + 2, e - 1)>>
        ELSE PrintHtmlSearch(script, i + 1)

PRINT_HTML_search(script) == PrintHtmlSearch(script, 1)

\* extract_markup: the decoded payload; ok = FALSE stands for the ValueError
\* raised when nothing matches or the literal does not decode
extract_markup(page) ==
    LET match == PRINT_HTML_search(page.script)
    IN  IF match = <<>> THEN [ok |-> FALSE, toks |-> <<>>]
        ELSE json_loads(match[1])

\* mutation: only the "name" key of an item's data is read
extract_item_lookup_NameOnly(page) ==
    IF page.addData = <<>> THEN EmptyMap
    ELSE LET data == page.addData[1]
         IN  [id \in {i \in DOMAIN data : data[i].name # None} |-> data[id].name]

\* extract_item_lookup: id -> name, from the addData object when present
extract_item_lookup(page) ==
    IF page.addData = <<>> THEN EmptyMap
    ELSE LET data == page.addData[1]
             name(id) == IF data[id].name_enus # None THEN data[id].name_enus
                         ELSE data[id].name
         IN  [id \in {i \in DOMAIN data : name(i) # None} |-> name(id)]

(***************************************************************************)
(* extract_wowhead_items: sections, rows and inline references             *)
(***************************************************************************)
\* one match of H3_RE starting at token i: <<end, name tokens>>, or <<>>
H3MatchAt(toks, i) ==
    IF toks[i].k # "h3toc" \/ i + 1 > Len(toks) \/ toks[i + 1].k # "q" THEN <<>>
    ELSE LET j == FindKind(toks, "q", i + 2)
             closers == {r \in (j + 1)..Len(toks) :
                            /\ HasClose(toks[r])
                            /\ \A x \in (j + 1)..(r - 1) : ~HasClose(toks[x])}
             r == IF j = 0 \/ closers = {} THEN 0 ELSE CHOOSE x \in closers : TRUE
             e == IF r = 0 THEN 0 ELSE FindKind(toks, "/h3", r + 1)
         IN  IF j <= i + 2 \/ e = 0 THEN <<>>
             ELSE <<e, SubSeq(toks, i + 2, j - 1)>>

\* H3_RE.finditer(markup): the headers (start, end, m.group(1))
RECURSIVE H3Headers(_, _)
H3Headers(toks, from) ==
    IF from > Len(toks) THEN <<>>
    ELSE LET m == H3MatchAt(toks, from)
         IN  IF m = <<>> THEN H3Headers(toks, from + 1)
             ELSE <<[start |-> from, end |-> m[1], name |-> TextOf(m[2])]>>
                  \o H3Headers(toks, m[1] + 1)

\* H4_RE.finditer(markup): the headers (start, end, clean_text(m.group(1)))
H4Headers(toks) ==
    LET b == Blocks(toks, "h4", "/h4", 1)
    IN  [i \in DOMAIN b |->
            [start |-> b[i][1], end |-> b[i][2],
             name |-> clean_text(SubSeq(toks, b[i][1] + 1, b[i][2] - 1))]]

\* headers.sort(key=lambda x: x[0])
SortByStart(hs) ==
    [k \in DOMAIN hs |->
        hs[CHOOSE i \in DOMAIN hs :
               Cardinality({j \in DOMAIN hs : hs[j].start < hs[i].start}) = k - 1]]

\* mutation: only the toc headers delimit sections
Headers_H3Only(markup) == H3Headers(markup, 1)

\* lines 221-226
Headers(markup) == SortByStart(H3Headers(markup, 1) \o H4Headers(markup))

\* ITEM_RE.findall(cell): the ids of the item references of a cell
RECURSIVE ItemIdsOf(_)
ItemIdsOf(toks) ==
    IF toks = <<>> THEN <<>>
    ELSE IF Head(toks).k = "item" THEN <<Head(toks).n>> \o ItemIdsOf(Tail(toks))
    ELSE ItemIdsOf(Tail(toks))

\* mutation: tie_with_previous is set on every member of a tie group
RowEntries_AllTied(row_order, rank_text, item_ids, source, item_lookup) ==
    [i \in DOMAIN item_ids |->
        [order |-> row_order, rank |-> rank_text, item_id |-> item_ids[i],
         spell_id |-> 0, item_name |-> Get(item_lookup, item_ids[i]),
         source |-> source, tie_group_size |-> Len(item_ids),
         tie_group_index |-> i, tie_with_previous |-> TRUE,
         ref_type |-> "item", ref_id |-> item_ids[i]]]

\* lines 265-280: the entries of one row; spell_id 0 stands for "no such key"
RowEntries(row_order, rank_text, item_ids, source, item_lookup) ==
    [i \in DOMAIN item_ids |->
        [order |-> row_order, rank |-> rank_text, item_id |-> item_ids[i],
         spell_id |-> 0, item_name |-> Get(item_lookup, item_ids[i]),
         source |-> source, tie_group_size |-> Len(item_ids),
         tie_group_index |-> i, tie_with_previous |-> i > 1,
         ref_type |-> "item", ref_id |-> item_ids[i]]]

\* mutation: the order number advances once per item
NextRowOrder_PerItem(row_order, item_ids) == row_order + Len(item_ids)

\* line 281
NextRowOrder(row_order, item_ids) == row_order + 1

\* mutation: a row that is skipped still takes an order number
RECURSIVE TableRows_CountsSkipped(_, _, _, _)
TableRows_CountsSkipped(rows, items, row_order, item_lookup) ==
    IF rows = <<>> THEN [items |-> items, row_order |-> row_order]
    ELSE LET cells == BlockBodies(Head(rows), "td", "/td")
             item_ids == IF Len(cells) < 2 THEN <<>> ELSE ItemIdsOf(cells[2])
             rank_text == IF Len(cells) < 2 THEN <<>> ELSE clean_text(cells[1])
             source == IF Len(cells) >= 3 THEN clean_text(cells[3]) ELSE <<>>
         IN  IF \/ Len(cells) < 2
                \/ item_ids = <<>>
                \/ rank_text = <<>>
                \/ Lower(rank_text) = <<"r", "a", "n", "k">>
             THEN TableRows_CountsSkipped(Tail(rows), items, row_order + 1, item_lookup)
             ELSE TableRows_CountsSkipped(Tail(rows),
                            items \o RowEntries(row_order, rank_text, item_ids,
                                                source, item_lookup),
                            NextRowOrder(row_order, item_ids), item_lookup)

\* lines 249-281: the rows of one table body, given the items so far
RECURSIVE TableRows(_, _, _, _)
TableRows(rows, items, row_order, item_lookup) ==
    IF rows = <<>> THEN [items |-> items, row_order |-> row_order]
    ELSE LET cells == BlockBodies(Head(rows), "td", "/td")
             item_ids == IF Len(cells) < 2 THEN <<>> ELSE ItemIdsOf(cells[2])
             rank_text == IF Len(cells) < 2 THEN <<>> ELSE clean_text(cells[1])
             source == IF Len(cells) >= 3 THEN clean_text(cells[3]) ELSE <<>>
         IN  IF \/ Len(cells) < 2
                \/ item_ids = <<>>
                \/ rank_text = <<>>
                \/ Lower(rank_text) = <<"r", "a", "n", "k">>
             THEN TableRows(Tail(rows), items, row_order, item_lookup)
             ELSE TableRows(Tail(rows),
                            items \o RowEntries(row_order, rank_text, item_ids,
                                                source, item_lookup),
                            NextRowOrder(row_order, item_ids), item_lookup)

\* mutation: the order numbers start again with each table
RECURSIVE SectionTables_PerTable(_, _, _, _)
SectionTables_PerTable(tables, items, row_order, item_lookup) ==
    IF tables = <<>> THEN items
    ELSE LET done == TableRows(BlockBodies(Head(tables), "tr", "/tr"),
                               items, 1, item_lookup)
         IN  SectionTables_PerTable(Tail(tables), done.items, done.row_order, item_lookup)

\* lines 247-281: the tables of one section
RECURSIVE SectionTables(_, _, _, _)
SectionTables(tables, items, row_order, item_lookup) ==
    IF tables = <<>> THEN items
    ELSE LET done == TableRows(BlockBodies(Head(tables), "tr", "/tr"),
                               items, row_order, item_lookup)
         IN  SectionTables(Tail(tables), done.items, done.row_order, item_lookup)

\* lines 190-214: the loop of _extract_inline_refs over REF_RE.finditer
RECURSIVE InlineRefs(_, _, _, _)
InlineRefs(toks, seen, items, item_lookup) ==
    IF toks = <<>> THEN items
    ELSE IF Head(toks).k \notin {"item", "spell"} \/ <<Head(toks).k, Head(toks).n>> \in seen
         THEN InlineRefs(Tail(toks), seen, items, item_lookup)
    ELSE LET t == Head(toks)
             order == Len(items) + 1
             row == [order |-> order,
                     rank |-> IF order = 1 THEN <<"B", "e", "s", "t">> ELSE <<"A", "l", "t", "e", "r", "n", "a", "t", "i", "v", "e">>,
                     item_id |-> IF t.k = "item" THEN t.n ELSE 0,
                     spell_id |-> IF t.k = "spell" THEN t.n ELSE 0,
                     item_name |-> IF t.k = "item" THEN Get(item_lookup, t.n) ELSE None,
                     source |-> <<>>, tie_group_size |-> 1, tie_group_index |-> 1,
                     tie_with_previous |-> FALSE, ref_type |-> t.k, ref_id |-> t.n]
         IN  InlineRefs(Tail(toks), seen \cup {<<t.k, t.n>>}, Append(items, row),
                        item_lookup)

\* mutation: every entry is labelled as the first one is
_extract_inline_refs_AllBest(section, item_lookup) ==
    LET items == InlineRefs(section, {}, <<>>, item_lookup)
    IN  [i \in DOMAIN items |-> [items[i] EXCEPT !.rank = items[1].rank]]

_extract_inline_refs(section, item_lookup) == InlineRefs(section, {}, <<>>, item_lookup)

\* mutation: the tables are the only source of items
SectionResult_TablesOnly(markup, headers, i, item_lookup, guide_type) ==
    LET header_name == headers[i].name
        slot_name == IF guide_type = "gems_enchants"
                     THEN _normalize_enhancement_bucket(header_name)
                     ELSE normalize_slot(header_name)
        valid_slots == IF guide_type = "gems_enchants"
                       THEN VALID_ENHANCEMENT_BUCKETS ELSE VALID_SLOTS
        section_end == IF i + 1 <= Len(headers) THEN headers[i + 1].start - 1
                       ELSE Len(markup)
        section == SubSeq(markup, headers[i].end + 1, section_end)
        items == SectionTables(BlockBodies(section, "table", "/table"), <<>>, 1,
                               item_lookup)
    IN  IF slot_name \notin valid_slots \/ items = <<>> THEN <<>>
        ELSE <<[slot |-> slot_name, items |-> items]>>

\* mutation: every section runs to the end of the markup
SectionResult_ToEnd(markup, headers, i, item_lookup, guide_type) ==
    LET header_name == headers[i].name
        slot_name == IF guide_type = "gems_enchants"
                     THEN _normalize_enhancement_bucket(header_name)
                     ELSE normalize_slot(header_name)
        valid_slots == IF guide_type = "gems_enchants"
                       THEN VALID_ENHANCEMENT_BUCKETS ELSE VALID_SLOTS
        section == SubSeq(markup, headers[i].end + 1, Len(markup))
        rows == SectionTables(BlockBodies(section, "table", "/table"), <<>>, 1,
                              item_lookup)
        items == IF rows = <<>> /\ guide_type = "gems_enchants"
                 THEN _extract_inline_refs(section, item_lookup)
                 ELSE rows
    IN  IF slot_name \notin valid_slots \/ items = <<>> THEN <<>>
        ELSE <<[slot |-> slot_name, items |-> items]>>

\* lines 230-287: what one header adds to results
SectionResult(markup, headers, i, item_lookup, guide_type) ==
    LET header_name == headers[i].name
        slot_name == IF guide_type = "gems_enchants"
                     THEN _normalize_enhancement_bucket(header_name)
                     ELSE normalize_slot(header_name)
        valid_slots == IF guide_type = "gems_enchants"
                       THEN VALID_ENHANCEMENT_BUCKETS ELSE VALID_SLOTS
        section_end == IF i + 1 <= Len(headers) THEN headers[i + 1].start - 1
                       ELSE Len(markup)
        section == SubSeq(markup, headers[i].end + 1, section_end)
        rows == SectionTables(BlockBodies(section, "table", "/table"), <<>>, 1,
                              item_lookup)
        items == IF rows = <<>> /\ guide_type = "gems_enchants"
                 THEN _extract_inline_refs(section, item_lookup)
                 ELSE rows
    IN  IF slot_name \notin valid_slots \/ items = <<>> THEN <<>>
        ELSE <<[slot |-> slot_name, items |-> items]>>

RECURSIVE SectionResults(_, _, _, _, _)
SectionResults(markup, headers, i, item_lookup, guide_type) ==
    IF i > Len(headers) THEN <<>>
    ELSE SectionResult(markup, headers, i, item_lookup, guide_type)
         \o SectionResults(markup, headers, i + 1, item_lookup, guide_type)

extract_by_slot(markup, item_lookup, guide_type) ==
    SectionResults(markup, Headers(markup), 1, item_lookup, guide_type)

(***************************************************************************)
(* Guide pages                                                             *)
(***************************************************************************)
\* json.dumps of a payload, without the quotes around it
RECURSIVE json_dumps(_)
json_dumps(toks) ==
    IF toks = <<>> THEN <<>>
    ELSE LET t == Head(toks)
             esc == IF t.k \in {"q", "bs"} THEN <<Tok("bs"), t>>
                    ELSE IF t.k = "txt" /\ t.s # <<>> /\ t.s[1] = "\n"
                         THEN <<Tok("bs"), Txt(<<"n">> \o Tail(t.s))>>
                    ELSE IF t.k = "txt" /\ t.s # <<>> /\ t.s[1] = "\r"
                         THEN <<Tok("bs"), Txt(<<"r">> \o Tail(t.s))>>
                    ELSE IF t.k = "txt" /\ t.s # <<>> /\ t.s[1] = "\t"
                         THEN <<Tok("bs"), Txt(<<"t">> \o Tail(t.s))>>
                    ELSE <<t>>
         IN  esc \o json_dumps(Tail(toks))

RECURSIVE Concat(_)
Concat(seqs) == IF seqs = <<>> THEN <<>> ELSE Head(seqs) \o Concat(Tail(seqs))

H3(name) ==
    <<Tok("h3toc"), Tok("q"), Txt(name), Tok("q"), Tok("rb"), Txt(name), Tok("/h3")>>
H4(name) == <<Tok("h4"), Txt(name), Tok("/h4")>>
Cell(content) == <<Tok("td")>> \o content \o <<Tok("/td")>>
Row(cells) ==
    <<Tok("tr")>> \o Concat([i \in DOMAIN cells |-> Cell(cells[i])]) \o <<Tok("/tr")>>
Table(rows) ==
    <<Tok("table")>> \o Concat([i \in DOMAIN rows |-> Row(rows[i])]) \o <<Tok("/table")>>

\* a guide as its author wrote it: a sequence of blocks, each a header, a
\* table (rows of cells) or a run of inline tokens
HeaderBlock(level, name) == [t |-> level, name |-> name, rows |-> <<>>, toks |-> <<>>]
TableBlock(rows) == [t |-> "table", name |-> <<>>, rows |-> rows, toks |-> <<>>]
InlineBlock(toks) == [t |-> "inline", name |-> <<>>, rows |-> <<>>, toks |-> toks]

RenderBlock(b) ==
    IF b.t = "h3" THEN H3(b.name)
    ELSE IF b.t = "h4" THEN H4(b.name)
    ELSE IF b.t = "table" THEN Table(b.rows)
    ELSE b.toks

Render(blocks) == Concat([i \in DOMAIN blocks |-> RenderBlock(blocks[i])])

\* the page around a payload: <script>WH.markup.printHtml("...");
\* WH.Gatherer.addData(3, 5, {...});</script>
PageOf(markup, addData) ==
    [script |-> <<Tok("printHtml"), Tok("q")>> \o json_dumps(markup)
                    \o <<Tok("q"), Tok("rparen")>>,
     addData |-> addData]


(***************************************************************************)
(* parse_wowhead_html.merge_slot_maps                                      *)
(***************************************************************************)
\* mutation: the "not in ordered" test is dropped
AppendNew_NoTest(ordered, list) == ordered \o list

\* for item_id in list: if item_id not in ordered: ordered.append(item_id)
RECURSIVE AppendNew(_, _)
AppendNew(ordered, list) ==
    IF list = <<>> THEN ordered
    ELSE AppendNew(IF Head(list) \in Range(ordered) THEN ordered
                   ELSE Append(ordered, Head(list)),
                   Tail(list))

\* mutation: the prior phase's items are appended first
MergeOrdered_PrevFirst(prev, curr, slot_id) ==
    AppendNew(AppendNew(<<>>, Get(prev, slot_id)), Get(curr, slot_id))

\* the list "ordered" built for one slot_id
MergeOrdered(prev, curr, slot_id) ==
    AppendNew(AppendNew(<<>>, Get(curr, slot_id)), Get(prev, slot_id))

merge_slot_maps(prev, curr) ==
    LET all_slot_ids == DOMAIN prev \cup DOMAIN curr
        kept == {s \in all_slot_ids : MergeOrdered(prev, curr, s) # <<>>}
    IN  [s \in kept |-> MergeOrdered(prev, curr, s)]

(***************************************************************************)
(* Specification MergeSpec: merge_slot_maps on any two maps                *)
(***************************************************************************)
\* every dict of lists (duplicates and empty lists included)
AnyMaps ==
    {m \in UNION {[D -> SeqsUpTo(ItemIds, MaxEntries)] : D \in SUBSET MergeSlotIds} :
        MapEntries(m) <= MaxEntries}

MergeInit ==
    /\ prev_slots \in AnyMaps
    /\ curr_slots \in AnyMaps
    /\ merged = EmptyMap
    /\ mpc = "call"
    /\ ChainIdle
    /\ SlotIdle
    /\ ExtractIdle
    /\ ParseIdle
    /\ BatchIdle
    /\ HeapIdle
    /\ ClassifyIdle
    /\ DecodeIdle
    /\ CheckIdle

MergeCall ==
    /\ mpc = "call"
    /\ merged' = merge_slot_maps(prev_slots, curr_slots)
    /\ mpc' = "ret"
    /\ UNCHANGED <<prev_slots, curr_slots>>
    /\ UNCHANGED <<chainVars, slotVars, extractVars, parseVars, batchVars, heapVars, classVars, decodeVars, checkVars>>

MergeNext == MergeCall

MergeSpec == MergeInit /\ [][MergeNext]_vars

(***************************************************************************)
(* Claims about merge_slot_maps (checked under MergeSpec)                  *)
(***************************************************************************)
\* the elements of list at the indices in I, in list order
SubseqAt(list, I) ==
    [k \in 1..Cardinality(I) |->
        list[CHOOSE i \in I : Cardinality({j \in I : j < i}) = k - 1]]

FirstOccurrences(list) ==
    SubseqAt(list, {i \in DOMAIN list : \A j \in 1..(i - 1) : list[j] # list[i]})

\* current items (first occurrence only), then the prior items not already there
CurrentThenPrior(prev, curr, s) ==
    LET c == Get(curr, s)
        p == Get(prev, s)
    IN  FirstOccurrences(c) \o
        FirstOccurrences(SubseqAt(p, {i \in DOMAIN p : p[i] \notin Range(c)}))

\* C1: merge_slot_maps(A, B) has no duplicate item id within any slot's list,
\* and every item of A or of B for a slot is in the merged list of that slot.
C1_MergeNoDuplicateAndComplete ==
    mpc = "ret" =>
        \A s \in MergeSlotIds :
            /\ s \in DOMAIN merged => NoDup(merged[s])
            /\ \A item \in Range(Get(prev_slots, s)) \cup Range(Get(curr_slots, s)) :
                   s \in DOMAIN merged /\ item \in Range(merged[s])

\* C1 witness: a merge whose two inputs share an item for a slot, one of them
\* listing an item twice, and each input contributing to some merged list.
C1_Witness ==
    /\ mpc = "ret"
    /\ \E s \in DOMAIN prev_slots \cap DOMAIN curr_slots :
           Range(prev_slots[s]) \cap Range(curr_slots[s]) # {}
    /\ \E s \in DOMAIN curr_slots : ~NoDup(curr_slots[s])
    /\ \E s \in DOMAIN merged : Len(merged[s]) = 2

\* C2: for every slot the merged list is the current map's items in their
\* order (first occurrence only) followed by the prior map's items not
\* already present, in prior order; prior {Head: [10]} and current
\* {Head: [20, 10]} give {Head: [20, 10]} (items 10, 20 are ids 1, 2 here).
C2_MergeCurrentThenPrior ==
    mpc = "ret" =>
        /\ \A s \in DOMAIN merged :
               merged[s] = CurrentThenPrior(prev_slots, curr_slots, s)
        /\ \A s \in MergeSlotIds \ DOMAIN merged :
               CurrentThenPrior(prev_slots, curr_slots, s) = <<>>
        /\ (prev_slots = [s \in {1} |-> <<1>>] /\ curr_slots = [s \in {1} |-> <<2, 1>>])
               => merged = [s \in {1} |-> <<2, 1>>]

\* C2 witness: the scenario's merge has returned.
C2_Witness ==
    /\ mpc = "ret"
    /\ prev_slots = [s \in {1} |-> <<1>>]
    /\ curr_slots = [s \in {1} |-> <<2, 1>>]
    /\ merged = [s \in {1} |-> <<2, 1>>]

(***************************************************************************)
(* Specification Spec: the phase loop of parse_wowhead_html.main for one   *)
(* spec key (lines 418-435)                                                *)
(***************************************************************************)
NumPhases == 5

\* what parse_guide_slots can return: no empty list, no duplicate in a list
GuideMaps ==
    {m \in UNION {[D -> SeqsUpTo(ItemIds, MaxRanked)] : D \in SUBSET ChainSlotIds} :
        \A s \in DOMAIN m : m[s] # <<>> /\ NoDup(m[s])}

Init ==
    /\ phase = 1
    /\ prev_slot_map = EmptyMap
    /\ profile = EmptyMap
    /\ phase_slots = <<>>
    /\ MergeIdle
    /\ SlotIdle
    /\ ExtractIdle
    /\ ParseIdle
    /\ BatchIdle
    /\ HeapIdle
    /\ ClassifyIdle
    /\ DecodeIdle
    /\ CheckIdle

\* mutation: a later phase is recorded with what its own guide lists only
PhaseStep_ParsedOnly(parsed) ==
    /\ phase <= NumPhases
    /\ phase_slots' = Append(phase_slots, parsed)
    /\ IF DOMAIN parsed # {}
       THEN /\ profile' = [p \in DOMAIN profile \cup {phase} |->
                             IF p = phase THEN parsed ELSE profile[p]]
            /\ prev_slot_map' = parsed
       ELSE UNCHANGED <<profile, prev_slot_map>>
    /\ phase' = phase + 1
    /\ UNCHANGED <<mergeVars, slotVars, extractVars, parseVars, batchVars, heapVars, classVars, decodeVars, checkVars>>

\* one iteration of "for phase in range(1, 6)"; parsed is the result of
\* parse_guide_slots, or {} when the phase has no guide file
PhaseStep(parsed) ==
    LET slot_map == IF phase > 1 THEN merge_slot_maps(prev_slot_map, parsed)
                    ELSE parsed
    IN  /\ phase <= NumPhases
        /\ phase_slots' = Append(phase_slots, parsed)
        /\ IF DOMAIN slot_map # {}
           THEN /\ profile' = [p \in DOMAIN profile \cup {phase} |->
                                 IF p = phase THEN slot_map ELSE profile[p]]
                /\ prev_slot_map' = slot_map
           ELSE UNCHANGED <<profile, prev_slot_map>>
        /\ phase' = phase + 1
        /\ UNCHANGED <<mergeVars, slotVars, extractVars, parseVars, batchVars, heapVars, classVars, decodeVars, checkVars>>

\* the ranked entries of the guides read so far
RECURSIVE GuideEntries(_)
GuideEntries(maps) ==
    IF maps = <<>> THEN 0 ELSE MapEntries(Head(maps)) + GuideEntries(Tail(maps))

Next ==
    \E parsed \in GuideMaps :
        /\ GuideEntries(phase_slots) + MapEntries(parsed) <= MaxGuideEntries
        /\ PhaseStep(parsed)

Spec == Init /\ [][Next]_vars

(***************************************************************************)
(* Specification SlotSpec: section_slot_ids on a heading and a body        *)
(***************************************************************************)
\* the words headings are made of, as guides write them
Vocabulary ==
    {<<"R", "i", "n", "g", "s">>,
     <<"T", "r", "i", "n", "k", "e", "t", "s">>,
     <<"G", "l", "o", "v", "e", "s">>,
     <<"O", "n", "e", "-", "H", "a", "n", "d", "e", "d">>,
     <<"W", "e", "a", "p", "o", "n", "s">>,
     <<"(", "D", "u", "a", "l", "-", "W", "i", "e", "l", "d", ")">>,
     <<"M", "a", "i", "n">>,
     <<"H", "a", "n", "d">>,
     <<"O", "f", "f", "-", "H", "a", "n", "d">>,
     <<"M", "a", "i", "n", "-", "H", "a", "n", "d">>}

Headings == {JoinWords(ws) : ws \in SeqsUpTo(Vocabulary, MaxWords)}

\* section bodies: no cue, a main-hand cue, an off-hand cue, both cues
SectionTexts ==
    {<<>>,
     <<"M", "a", "i", "n", " ", "H", "a", "n", "d">>,
     <<"O", "f", "f", "-", "H", "a", "n", "d">>,
     <<"m", "a", "i", "n", " ", "h", "a", "n", "d", " ", "a", "n", "d", " ", "o", "f", "f", " ", "h", "a", "n", "d">>}

SlotInit ==
    /\ heading \in Headings
    /\ section_html \in SectionTexts
    /\ target_slots = <<>>
    /\ spc = "call"
    /\ MergeIdle
    /\ ChainIdle
    /\ ExtractIdle
    /\ ParseIdle
    /\ BatchIdle
    /\ HeapIdle
    /\ ClassifyIdle
    /\ DecodeIdle
    /\ CheckIdle

SlotCall ==
    /\ spc = "call"
    /\ target_slots' = section_slot_ids(heading, section_html)
    /\ spc' = "ret"
    /\ UNCHANGED <<heading, section_html>>
    /\ UNCHANGED <<mergeVars, chainVars, extractVars, parseVars, batchVars, heapVars, classVars, decodeVars, checkVars>>

SlotNext == SlotCall

SlotSpec == SlotInit /\ [][SlotNext]_vars

(***************************************************************************)
(* Claims about section_slot_ids (checked under SlotSpec)                  *)
(***************************************************************************)
AnyIn(needles, text) == \E n \in needles : Contains(n, text)

\* the cues of the rules that come before the weapon rules
ArmorCues ==
    {<<"h", "e", "a", "d">>,
     <<"n", "e", "c", "k">>,
     <<"s", "h", "o", "u", "l", "d", "e", "r">>,
     <<"b", "a", "c", "k">>,
     <<"c", "l", "o", "a", "k">>,
     <<"c", "h", "e", "s", "t">>,
     <<"w", "r", "i", "s", "t">>,
     <<"i", "d", "o", "l">>,
     <<"r", "e", "l", "i", "c">>,
     <<"t", "o", "t", "e", "m">>,
     <<"l", "i", "b", "r", "a", "m">>,
     <<"r", "a", "n", "g", "e", "d">>,
     <<"w", "a", "n", "d">>,
     <<"w", "a", "i", "s", "t">>,
     <<"b", "e", "l", "t">>,
     <<"l", "e", "g">>,
     <<"f", "e", "e", "t">>,
     <<"b", "o", "o", "t">>,
     <<"r", "i", "n", "g">>,
     <<"t", "r", "i", "n", "k", "e", "t">>}

DualWieldPhrases == {<<"d", "u", "a", "l", "-", "w", "i", "e", "l", "d">>,
                     <<"d", "u", "a", "l", " ", "w", "i", "e", "l", "d">>}
MainHandCues == {<<"m", "a", "i", "n", " ", "h", "a", "n", "d">>,
                 <<"m", "a", "i", "n", "-", "h", "a", "n", "d">>,
                 <<"m", "a", "i", "n", "h", "a", "n", "d">>}
OffHandCues == {<<"o", "f", "f", " ", "h", "a", "n", "d">>,
                <<"o", "f", "f", "-", "h", "a", "n", "d">>,
                <<"o", "f", "f", "h", "a", "n", "d">>}

\* no rule for another slot takes the heading, so the weapon rules decide
WeaponLogicApplies(text) ==
    /\ ~AnyIn(ArmorCues, Lower(text))
    /\ ~(/\ AnyIn({<<"h", "a", "n", "d">>, <<"g", "l", "o", "v", "e">>}, Lower(text))
         /\ ~is_weapon_hand_section(Lower(text)))

OneHandedDualWield == <<"O", "n", "e", "-", "H", "a", "n", "d", "e", "d", " ", "W", "e", "a", "p", "o", "n", "s", " ", "(", "D", "u", "a", "l", "-", "W", "i", "e", "l", "d", ")">>

SeenIn(j, s) == Range(Get(phase_slots[j], s))

\* the latest phase <= k whose guide lists item for slot s
LastPhase(item, s, k) ==
    CHOOSE j \in 1..k :
        /\ item \in SeenIn(j, s)
        /\ \A i \in (j + 1)..k : item \notin SeenIn(i, s)

PosIn(list, item) == CHOOSE i \in DOMAIN list : list[i] = item

\* merged_k[s]: the list recorded for phase k (empty when nothing is recorded)
MergedAt(k, s) == IF k \in DOMAIN profile THEN Get(profile[k], s) ELSE <<>>

\* C3: applied over phases 1..5, merged_k[S] holds exactly the union of the
\* items seen for S in phases 1..k, ordered by the most recent phase listing
\* the item first and, within one phase, by that phase's own order (stated
\* of each phase k when the loop has just processed it).
C3_ChainUnionRecencyOrder ==
    LET k == Len(phase_slots)
    IN  k >= 1 =>
        \A s \in ChainSlotIds :
            LET L == MergedAt(k, s)
            IN  /\ Range(L) = UNION {SeenIn(j, s) : j \in 1..k}
                /\ NoDup(L)
                /\ \A a, b \in DOMAIN L :
                       a < b =>
                           LET pa == LastPhase(L[a], s, k)
                               pb == LastPhase(L[b], s, k)
                           IN  \/ pa > pb
                               \/ /\ pa = pb
                                  /\ PosIn(phase_slots[pa][s], L[a])
                                         < PosIn(phase_slots[pb][s], L[b])

\* C3 witness: all five phases done; an item of phase 1 returns in phase 3
\* after phase 2 introduced another one, and some phase lists two items.
C3_Witness ==
    /\ phase = NumPhases + 1
    /\ \E s \in ChainSlotIds : \E x, y \in ItemIds :
           /\ x # y
           /\ Get(phase_slots[1], s) = <<x>>
           /\ Get(phase_slots[2], s) = <<y>>
           /\ Get(phase_slots[3], s) = <<x>>
           /\ MergedAt(3, s) = <<x, y>>
           /\ Get(phase_slots[4], s) = <<>>
           /\ Get(phase_slots[5], s) = <<y, x>>
           /\ MergedAt(5, s) = <<y, x>>

(***************************************************************************)
(* Specification ExtractSpec: extract_wowhead_items.main on one saved page *)
(***************************************************************************)
GuideTypes == {"bis", "gems_enchants"}

HeadHeader == HeaderBlock("h3", <<"H", "e", "a", "d">>)
RingsHeader == HeaderBlock("h4", <<"R", "i", "n", "g", "s">>)
NotesHeader == HeaderBlock("h3", <<"N", "o", "t", "e", "s">>)
ChestEnchantHeader == HeaderBlock("h4", <<"C", "h", "e", "s", "t", " ", "E", "n", "c", "h", "a", "n", "t">>)
HeaderForms == {HeadHeader, RingsHeader, NotesHeader, ChestEnchantHeader}

RankCells == {<<>>, <<Txt(<<"R", "a", "n", "k">>)>>, <<Txt(<<"R", "a", "n", "k", " ", "1">>)>>}
SourceCell == <<Txt(<<"S", "o", "u", "r", "c", "e">>)>>
RefToks == {Ref("item", i) : i \in ItemIds} \cup {Ref("spell", 1)}

\* guides of one header and one table of one row: a rank cell, a cell of up
\* to MaxRefs references and, optionally, a source cell
TieRows ==
    {<<rk, refs>> : rk \in RankCells, refs \in SeqsUpTo(RefToks, MaxRefs)}
    \cup {<<rk, refs, SourceCell>> : rk \in RankCells, refs \in SeqsUpTo(RefToks, MaxRefs)}
TieDocs == {<<h, TableBlock(<<row>>)>> : h \in HeaderForms, row \in TieRows}

\* guides of one header and up to MaxRows rows in one table or split over two
SimpleRows ==
    {<<<<Txt(<<"R", "a", "n", "k", " ", "1">>)>>, <<Ref("item", i)>>>> : i \in ItemIds}
    \cup {<<<<Txt(<<"R", "a", "n", "k">>)>>, <<Txt(<<"I", "t", "e", "m">>)>>>>,
          <<<<Txt(<<"R", "a", "n", "k", " ", "1">>)>>>>,
          <<<<Txt(<<"R", "a", "n", "k", " ", "2">>)>>, <<Ref("spell", 1)>>>>,
          <<<<Txt(<<"R", "a", "n", "k", " ", "2">>)>>,
            <<Ref("item", 1), Ref("spell", 1), Ref("item", MaxItem)>>>>}
SplitRows(rs, k) ==
    IF k = Len(rs) THEN <<TableBlock(rs)>>
    ELSE <<TableBlock(SubSeq(rs, 1, k)), TableBlock(SubSeq(rs, k + 1, Len(rs)))>>
RowDocs ==
    UNION {{<<h>> \o SplitRows(rs, k) : k \in 0..Len(rs)} :
              h \in {HeadHeader, ChestEnchantHeader},
              rs \in SeqsUpTo(SimpleRows, MaxRows)}

\* guides of up to MaxSections pieces, each an optional header and a body
SimpleBodies ==
    {<<>>,
     <<TableBlock(<<<<<<Txt(<<"R", "a", "n", "k", " ", "1">>)>>, <<Ref("item", 1)>>>>>>)>>,
     <<InlineBlock(<<Ref("item", 1), Txt(<<"\n">>), Ref("spell", 1), Ref("item", 1)>>)>>}
SectionForms ==
    {hd \o body : hd \in {<<>>} \cup {<<h>> : h \in HeaderForms}, body \in SimpleBodies}
SectionDocs == {Concat(ss) : ss \in SeqsUpTo(SectionForms, MaxSections)}

\* a guide of one header and two tables: a title row and a ranked row, then
\* a row of one cell, a row without rank label and a ranked row of two items
TwoTableDocs ==
    {<<HeadHeader,
       TableBlock(<<<<<<Txt(<<"R", "a", "n", "k">>)>>, <<Txt(<<"I", "t", "e", "m">>)>>>>,
                    <<<<Txt(<<"R", "a", "n", "k", " ", "1">>)>>, <<Ref("item", 1)>>>>>>),
       TableBlock(<<<<<<Txt(<<"R", "a", "n", "k", " ", "2">>)>>>>,
                    <<<<>>, <<Ref("item", 2)>>>>,
                    <<<<Txt(<<"R", "a", "n", "k", " ", "2">>)>>, <<Ref("item", 2), Ref("item", 1)>>>>>>)>>}

Docs == TieDocs \cup RowDocs \cup SectionDocs \cup TwoTableDocs

\* the object passed to WH.Gatherer.addData: odd ids carry name_enus only,
\* even ids carry name only
ItemName(i) == <<"I", "t", "e", "m", " ">> \o <<ToString(i)>>
ItemData(i) ==
    IF i % 2 = 1 THEN [name_enus |-> ItemName(i), name |-> None]
    ELSE [name_enus |-> None, name |-> ItemName(i)]
AddDataForms == {<<>>, <<[i \in ItemIds |-> ItemData(i)]>>}

\* pages whose printHtml call is missing, unterminated, badly escaped, or
\* carries a second argument
OddDoc == <<RingsHeader, TableBlock(<<<<<<Txt(<<"R", "a", "n", "k", " ", "1">>)>>, <<Ref("item", 1)>>>>>>)>>
OddPages ==
    {[script |-> <<>>, addData |-> <<>>],
     [script |-> <<Tok("printHtml"), Tok("q"), Txt(<<"H", "e", "a", "d">>)>>, addData |-> <<>>],
     [script |-> <<Tok("printHtml"), Tok("q"), Tok("bs"), Txt(<<"x">>), Tok("q"),
                   Tok("rparen")>>, addData |-> <<>>],
     [script |-> <<Tok("printHtml"), Tok("q")>> \o json_dumps(Render(OddDoc))
                     \o <<Tok("q"), Tok("comma")>>, addData |-> <<>>]}

ExtractInit ==
    /\ \/ \E d \in Docs, a \in AddDataForms :
              /\ doc = d
              /\ html_text = PageOf(Render(d), a)
       \/ \E p \in OddPages :
              /\ doc = IF extract_markup(p).ok THEN OddDoc ELSE <<>>
              /\ html_text = p
    /\ arg_guide_type \in GuideTypes
    /\ page_markup = <<>>
    /\ page_lookup = EmptyMap
    /\ grouped = <<>>
    /\ epc = "start"
    /\ MergeIdle
    /\ ChainIdle
    /\ SlotIdle
    /\ ParseIdle
    /\ BatchIdle
    /\ HeapIdle
    /\ ClassifyIdle
    /\ DecodeIdle
    /\ CheckIdle

\* line 317, returning normally
ExtractMarkup ==
    /\ epc = "start"
    /\ extract_markup(html_text).ok
    /\ page_markup' = extract_markup(html_text).toks
    /\ epc' = "markup"
    /\ UNCHANGED <<doc, html_text, arg_guide_type, page_lookup, grouped>>
    /\ UNCHANGED <<mergeVars, chainVars, slotVars, parseVars, batchVars, heapVars, classVars, decodeVars, checkVars>>

\* line 317 raising, lines 320-322: main reports the error and returns 1
ExtractMarkupFails ==
    /\ epc = "start"
    /\ ~extract_markup(html_text).ok
    /\ epc' = "failed"
    /\ UNCHANGED <<doc, html_text, arg_guide_type, page_markup, page_lookup, grouped>>
    /\ UNCHANGED <<mergeVars, chainVars, slotVars, parseVars, batchVars, heapVars, classVars, decodeVars, checkVars>>

\* line 318
ExtractItemLookup ==
    /\ epc = "markup"
    /\ page_lookup' = extract_item_lookup(html_text)
    /\ epc' = "lookup"
    /\ UNCHANGED <<doc, html_text, arg_guide_type, page_markup, grouped>>
    /\ UNCHANGED <<mergeVars, chainVars, slotVars, parseVars, batchVars, heapVars, classVars, decodeVars, checkVars>>

\* line 319
ExtractBySlot ==
    /\ epc = "lookup"
    /\ grouped' = extract_by_slot(page_markup, page_lookup, arg_guide_type)
    /\ epc' = "done"
    /\ UNCHANGED <<doc, html_text, arg_guide_type, page_markup, page_lookup>>
    /\ UNCHANGED <<mergeVars, chainVars, slotVars, parseVars, batchVars, heapVars, classVars, decodeVars, checkVars>>

ExtractNext ==
    \/ ExtractMarkup
    \/ ExtractMarkupFails
    \/ ExtractItemLookup
    \/ ExtractBySlot

ExtractSpec == ExtractInit /\ [][ExtractNext]_vars

(***************************************************************************)
(* Claims about the extractor, stated against the guide as written (doc)   *)
(***************************************************************************)
\* the sections of a guide as written: each header with the blocks up to
\* the next header
DocSections(d) ==
    LET H == {i \in DOMAIN d : d[i].t \in {"h3", "h4"}}
        at(k) == CHOOSE i \in H : Cardinality({j \in H : j < i}) = k - 1
        stop(k) == IF k < Cardinality(H) THEN at(k + 1) - 1 ELSE Len(d)
    IN  [k \in 1..Cardinality(H) |->
            [name |-> d[at(k)].name, body |-> SubSeq(d, at(k) + 1, stop(k))]]

\* the slot a written header names in a guide of the given type
DocSlot(name, type) ==
    IF name \in {<<"H", "e", "a", "d">>, <<"R", "i", "n", "g", "s">>} THEN name
    ELSE IF name = <<"C", "h", "e", "s", "t", " ", "E", "n", "c", "h", "a", "n", "t">> /\ type = "gems_enchants" THEN <<"C", "h", "e", "s", "t">>
    ELSE None

CellText(cell) == IF cell = <<>> THEN <<>> ELSE cell[1].s
ItemRefs(cell) == Len(SelectSeq(cell, LAMBDA t : t.k = "item"))

\* a row that ranks items: two cells or more, a rank label that is neither
\* blank nor the column title, and an item reference in the second cell
RankedRow(row) ==
    /\ Len(row) >= 2
    /\ CellText(row[1]) # <<>>
    /\ Lower(CellText(row[1])) # <<"r", "a", "n", "k">>
    /\ ItemRefs(row[2]) >= 1

SectionRows(sec) == Concat([i \in DOMAIN sec.body |-> sec.body[i].rows])
RankedRows(sec) == SelectSeq(SectionRows(sec), RankedRow)

HasRef(sec) == \E t \in Range(Render(sec.body)) : t.k \in {"item", "spell"}

\* the written section contributes an entry to the results
Yields(sec, type) ==
    /\ DocSlot(sec.name, type) # None
    /\ \/ RankedRows(sec) # <<>>
       \/ type = "gems_enchants" /\ HasRef(sec)

\* the position in the results of the entry of written section k
ResultIndex(secs, k, type) == Cardinality({j \in 1..k : Yields(secs[j], type)})

\* the number of entries the ranked rows before row r contribute
RECURSIVE EntriesBefore(_, _)
EntriesBefore(rows, r) ==
    IF r <= 1 THEN 0
    ELSE EntriesBefore(rows, r - 1) + ItemRefs(rows[r - 1][2])

\* the entries of ranked row r within the list of its section
RowSlice(items, rows, r) ==
    SubSeq(items, EntriesBefore(rows, r) + 1, EntriesBefore(rows, r + 1))

\* written sections whose tables rank items, once the extraction is done
TableSections ==
    IF epc # "done" THEN {}
    ELSE {k \in DOMAIN DocSections(doc) :
             /\ DocSlot(DocSections(doc)[k].name, arg_guide_type) # None
             /\ RankedRows(DocSections(doc)[k]) # <<>>}

ListOf(k) == grouped[ResultIndex(DocSections(doc), k, arg_guide_type)].items

\* C4: a table row whose item cell holds N item references produces exactly
\* N entries; they share one order, each has tie_group_size N, their
\* tie_group_index values are 1..N in turn, and all but the first have
\* tie_with_previous set
C4_TieGroupPerRow ==
    \A k \in TableSections :
        LET rows == RankedRows(DocSections(doc)[k])
        IN  /\ ResultIndex(DocSections(doc), k, arg_guide_type) \in DOMAIN grouped
            /\ Len(ListOf(k)) = EntriesBefore(rows, Len(rows) + 1)
            /\ \A r \in DOMAIN rows :
                   LET N == ItemRefs(rows[r][2])
                       G == RowSlice(ListOf(k), rows, r)
                   IN  /\ Len(G) = N
                       /\ \A i \in 1..N :
                              /\ G[i].order = G[1].order
                              /\ G[i].tie_group_size = N
                              /\ G[i].tie_group_index = i
                              /\ G[i].tie_with_previous = (i > 1)
                       /\ Cardinality({i \in 1..N : G[i].tie_with_previous}) = N - 1

\* a row of three tied items has been extracted
C4_Witness ==
    \E k \in TableSections :
        \E r \in DOMAIN RankedRows(DocSections(doc)[k]) :
            /\ ItemRefs(RankedRows(DocSections(doc)[k])[r][2]) >= 2
            /\ Len(ListOf(k)) >= 2
            /\ ListOf(k)[2].tie_with_previous

\* C5: within one slot's list, order is constant within a tie group and
\* grows by exactly one from each table row to the next
C5_OrderPerRow ==
    \A k \in TableSections :
        LET rows == RankedRows(DocSections(doc)[k])
            items == ListOf(k)
        IN  /\ Len(items) = EntriesBefore(rows, Len(rows) + 1)
            /\ \A r \in DOMAIN rows :
                   \A e \in Range(RowSlice(items, rows, r)) :
                       e.order = RowSlice(items, rows, r)[1].order
            /\ \A r \in DOMAIN rows :
                   r + 1 \in DOMAIN rows =>
                       RowSlice(items, rows, r + 1)[1].order
                           = RowSlice(items, rows, r)[1].order + 1

\* two rows have been extracted, the first a tie of two items
C5_Witness ==
    \E k \in TableSections :
        /\ Len(RankedRows(DocSections(doc)[k])) >= 2
        /\ ItemRefs(RankedRows(DocSections(doc)[k])[1][2]) = 2
        /\ Len(ListOf(k)) >= 3
        /\ ListOf(k)[2].order = ListOf(k)[1].order
        /\ ListOf(k)[3].order = ListOf(k)[1].order + 1

\* C6: within one slot's list, no two entries carry the same
\* (ref_type, ref_id)
C6_RefIdentityUnique ==
    epc = "done" =>
        \A g \in DOMAIN grouped :
            \A i, j \in DOMAIN grouped[g].items :
                /\ grouped[g].items[i].ref_type = grouped[g].items[j].ref_type
                /\ grouped[g].items[i].ref_id = grouped[g].items[j].ref_id
                => i = j

\* the headers of the guide as written that name a slot
RecognizableHeaders ==
    {i \in DOMAIN doc : /\ doc[i].t \in {"h3", "h4"}
                        /\ DocSlot(doc[i].name, arg_guide_type) # None}

AllRows == Concat([i \in DOMAIN doc |-> doc[i].rows])

SomeSlotWithItem == \E g \in DOMAIN grouped : Len(grouped[g].items) >= 1

\* C7 as stated: a guide with a recognizable header and, anywhere, a row of
\* two cells or more whose first cell is a rank label yields a slot with an
\* item
C7_AnyHeaderAnyRow ==
    epc = "done" /\ RecognizableHeaders # {} /\ (\E r \in Range(AllRows) : RankedRow(r))
        => SomeSlotWithItem

\* C7, amended: a guide in which the section of a recognizable header holds a
\* table row of two cells or more, with a rank label in the first cell and an
\* item reference in the second, yields an entry for that header's slot with
\* at least one item
C7_RankedRowInSlotSection ==
    \A k \in TableSections :
        \E g \in DOMAIN grouped :
            /\ grouped[g].slot = DocSlot(DocSections(doc)[k].name, arg_guide_type)
            /\ Len(grouped[g].items) >= 1

\* a guide whose second section, under an h4 header, holds the ranked row
C7_Witness ==
    /\ epc = "done"
    /\ \E k \in TableSections : k = 2 /\ DocSections(doc)[k].name = <<"R", "i", "n", "g", "s">>
    /\ SomeSlotWithItem

\* C8: a page whose payload is one header naming a canonical slot and one
\* table of one row of three cells (rank label, one item reference, source),
\* with the item named in the page's item data, yields exactly one slot
\* entry of that name holding exactly one item, with that id, the looked-up
\* name, order 1 and tie_group_size 1
SmokeShape ==
    /\ Len(doc) = 2
    /\ doc[1].t \in {"h3", "h4"}
    /\ doc[1].name \in {<<"H", "e", "a", "d">>, <<"R", "i", "n", "g", "s">>}
    /\ doc[2].t = "table"
    /\ Len(doc[2].rows) = 1
    /\ Len(doc[2].rows[1]) = 3
    /\ RankedRow(doc[2].rows[1])
    /\ Len(doc[2].rows[1][2]) = 1
    /\ html_text.addData # <<>>

C8_SmokeScenario ==
    epc = "done" /\ SmokeShape =>
        /\ Len(grouped) = 1
        /\ grouped[1].slot = doc[1].name
        /\ Len(grouped[1].items) = 1
        /\ grouped[1].items[1].item_id = doc[2].rows[1][2][1].n
        /\ grouped[1].items[1].item_name = ItemName(doc[2].rows[1][2][1].n)
        /\ grouped[1].items[1].order = 1
        /\ grouped[1].items[1].tie_group_size = 1

C8_Witness ==
    /\ epc = "done"
    /\ SmokeShape
    /\ doc[1].name = <<"H", "e", "a", "d">>
    /\ arg_guide_type = "bis"
    /\ Len(grouped) = 1
    /\ grouped[1].items[1].item_name = <<"I", "t", "e", "m", " ", "1">>

(***************************************************************************)
(* parse_wowhead_html: reading the ranked items of a guide page            *)
(* A page holds its script as tokens (guideBody stands for "guide-body")   *)
(* and the inside of its <noscript> element, whose HTML tags are the       *)
(* tokens <h> </h> (levels 2 to 6), <table> </table>, <tr> </tr>, <td>     *)
(* </td> and link (an anchor to /tbc/item=n).                              *)
(***************************************************************************)
HtmlTags == {"<h>", "</h>", "<table>", "</table>", "<tr>", "</tr>", "<td>", "</td>", "link"}

\* str.replace of backslash + c by r, where c starts a run of text
RECURSIVE ReplaceEscChar(_, _, _)
ReplaceEscChar(toks, c, r) ==
    IF toks = <<>> THEN <<>>
    ELSE IF /\ Head(toks).k = "bs" /\ Len(toks) >= 2
            /\ toks[2].k = "txt" /\ toks[2].s # <<>> /\ toks[2].s[1] = c
         THEN <<Txt(<<r>> \o Tail(toks[2].s))>>
              \o ReplaceEscChar(SubSeq(toks, 3, Len(toks)), c, r)
    ELSE <<Head(toks)>> \o ReplaceEscChar(Tail(toks), c, r)

\* str.replace of backslash + quote (kind "q") or backslash + backslash
\* (kind "bs") by the second character
RECURSIVE ReplaceEscTok(_, _)
ReplaceEscTok(toks, kind) ==
    IF toks = <<>> THEN <<>>
    ELSE IF Head(toks).k = "bs" /\ Len(toks) >= 2 /\ toks[2].k = kind
         THEN <<toks[2]>> \o ReplaceEscTok(SubSeq(toks, 3, Len(toks)), kind)
    ELSE <<Head(toks)>> \o ReplaceEscTok(Tail(toks), kind)

\* the six replacements, in the order the code chains them
unescape_js_string(value) ==
    ReplaceEscTok(
        ReplaceEscChar(
            ReplaceEscTok(
                ReplaceEscChar(
                    ReplaceEscChar(
                        ReplaceEscChar(value, "n", "\n"),
                        "r", "\r"),
                    "t", "\t"),
                "q"),
            "/", "/"),
        "bs")

\* pattern.search from token from: <<group(1)>> of the first printHtml call
\* whose literal is followed by , "guide-body"; <<>> when there is none
RECURSIVE GuideBodySearch(_, _)
GuideBodySearch(script, from) ==
    LET i == FindKind(script, "printHtml", from)
        e == IF i = 0 \/ i + 1 > Len(script) \/ script[i + 1].k # "q" THEN 0
             ELSE LiteralEnd(script, i + 2)
    IN  IF i = 0 THEN <<>>
        ELSE IF /\ e # 0 /\ e + 2 <= Len(script)
                /\ script[e + 1].k = "comma" /\ script[e + 2].k = "guideBody"
        THEN <<SubSeq(script, i + 2, e - 1)>>
        ELSE GuideBodySearch(script, i + 1)

\* extract_guide_markup: <<markup>>, or <<>> for None
extract_guide_markup(page) ==
    LET match == GuideBodySearch(page.script, 1)
    IN  IF match = <<>> THEN <<>> ELSE <<unescape_js_string(match[1])>>

\* extract_noscript: <<inner>>, or <<>> for None
extract_noscript(page) == page.noscript

\* parse_wowhead_html.clean_text: tags in angle brackets become a space,
\* whitespace is collapsed; the texts here hold no character reference,
\* which html.unescape leaves as they are
html_clean_text(toks) ==
    Strip(CollapseWS(TextOf([i \in DOMAIN toks |->
        IF toks[i].k \in HtmlTags THEN Txt(<<" ">>) ELSE toks[i]])))

\* re.finditer of  \[h[2-6][^\]]*\](.*?)\[/h[2-6]\]  from token from
RECURSIVE MarkupHeadings(_, _)
MarkupHeadings(toks, from) ==
    LET opens == {i \in from..Len(toks) : toks[i].k \in {"h3toc", "h4"}}
        i == IF opens = {} THEN 0 ELSE CHOOSE x \in opens : \A y \in opens : x <= y
        closers == {r \in (i + 1)..Len(toks) : HasClose(toks[r])}
        r == IF i = 0 THEN 0
             ELSE IF toks[i].k = "h4" THEN i
             ELSE IF closers = {} THEN 0
             ELSE CHOOSE x \in closers : \A y \in closers : x <= y
        ends == {x \in (r + 1)..Len(toks) : toks[x].k \in {"/h3", "/h4"}}
        e == IF r = 0 \/ ends = {} THEN 0
             ELSE CHOOSE x \in ends : \A y \in ends : x <= y
    IN  IF i = 0 THEN <<>>
        ELSE IF e = 0 THEN MarkupHeadings(toks, i + 1)
        ELSE <<[start |-> i, end |-> e, inner |-> SubSeq(toks, r + 1, e - 1)]>>
             \o MarkupHeadings(toks, e + 1)

\* re.finditer of  <h[2-6][^>]*>(.*?)</h[2-6]>
NoscriptHeadings(toks) ==
    LET b == Blocks(toks, "<h>", "</h>", 1)
    IN  [i \in DOMAIN b |->
            [start |-> b[i][1], end |-> b[i][2],
             inner |-> SubSeq(toks, b[i][1] + 1, b[i][2] - 1)]]

\* the ids of the anchors to /tbc/item=n, in order
RECURSIVE LinkIdsOf(_)
LinkIdsOf(toks) ==
    IF toks = <<>> THEN <<>>
    ELSE IF Head(toks).k = "link" THEN <<Head(toks).n>> \o LinkIdsOf(Tail(toks))
    ELSE LinkIdsOf(Tail(toks))

\* the ids a piece of text refers to: its anchors or, without any, its
\* [item=n] references
ItemIdsIn(toks) ==
    IF LinkIdsOf(toks) # <<>> THEN LinkIdsOf(toks) ELSE ItemIdsOf(toks)

\* lines 225-243
RECURSIVE RankedOfRows(_, _)
RankedOfRows(rows, ranked) ==
    IF rows = <<>> THEN ranked
    ELSE LET html_cells == BlockBodies(Head(rows), "<td>", "</td>")
             cells == IF html_cells # <<>> THEN html_cells
                      ELSE BlockBodies(Head(rows), "td", "/td")
         IN  IF Len(cells) < 2 THEN RankedOfRows(Tail(rows), ranked)
             ELSE RankedOfRows(Tail(rows), AppendNew(ranked, ItemIdsIn(cells[2])))

parse_ranked_items_from_table(table_html) ==
    LET html_rows == BlockBodies(table_html, "<tr>", "</tr>")
        rows == IF html_rows # <<>> THEN html_rows
                ELSE BlockBodies(table_html, "tr", "/tr")
    IN  RankedOfRows(rows, <<>>)

\* lines 246-254
parse_linked_item_ids(section) == AppendNew(<<>>, ItemIdsIn(section))

\* lines 283-293: the tables of a section of the markup
RECURSIVE MarkupTables(_, _)
MarkupTables(table_blocks, ranked) ==
    IF table_blocks = <<>> THEN ranked
    ELSE LET table_markup == <<Tok("table")>> \o Head(table_blocks) \o <<Tok("/table")>>
             parsed == parse_ranked_items_from_table(table_markup)
         IN  MarkupTables(Tail(table_blocks),
                          IF parsed # <<>> THEN AppendNew(ranked, parsed)
                          ELSE AppendNew(ranked, ItemIdsOf(table_markup)))

\* lines 295-299: the tables of a section of the noscript HTML
RECURSIVE NoscriptTables(_, _)
NoscriptTables(table_blocks, ranked) ==
    IF table_blocks = <<>> THEN ranked
    ELSE NoscriptTables(Tail(table_blocks),
                        AppendNew(ranked, parse_ranked_items_from_table(Head(table_blocks))))

\* mutation: the ranked list is stored under the first target slot only
StoreRanked_FirstOnly(slot_map, targets, ranked) ==
    [s \in DOMAIN slot_map \cup {targets[1]} |->
        IF s = targets[1] THEN ranked ELSE slot_map[s]]

\* mutation: the ranked list is added to what the slot holds already
StoreRanked_Extend(slot_map, targets, ranked) ==
    [s \in DOMAIN slot_map \cup Range(targets) |->
        IF s \in Range(targets) THEN AppendNew(Get(slot_map, s), ranked) ELSE slot_map[s]]

\* lines 304-305
StoreRanked(slot_map, targets, ranked) ==
    [s \in DOMAIN slot_map \cup Range(targets) |->
        IF s \in Range(targets) THEN ranked ELSE slot_map[s]]

\* lines 272-305: the loop over the sections
RECURSIVE ParseSections(_, _, _, _, _)
ParseSections(source_text, sections, idx, from_markup, slot_map) ==
    IF idx > Len(sections) THEN slot_map
    ELSE LET head_text == html_clean_text(sections[idx].inner)
             stop == IF idx + 1 <= Len(sections) THEN sections[idx + 1].start - 1
                     ELSE Len(source_text)
             section == SubSeq(source_text, sections[idx].end + 1, stop)
             targets == section_slot_ids(head_text, TextOf(section))
             tabled == IF from_markup
                       THEN MarkupTables(BlockBodies(section, "table", "/table"), <<>>)
                       ELSE LET b == Blocks(section, "<table>", "</table>", 1)
                            IN  NoscriptTables(
                                    [i \in DOMAIN b |-> SubSeq(section, b[i][1], b[i][2])],
                                    <<>>)
             ranked == IF tabled # <<>> THEN tabled ELSE parse_linked_item_ids(section)
         IN  IF targets = <<>> \/ ranked = <<>>
             THEN ParseSections(source_text, sections, idx + 1, from_markup, slot_map)
             ELSE ParseSections(source_text, sections, idx + 1, from_markup,
                                StoreRanked(slot_map, targets, ranked))

\* lines 257-306
parse_guide_slots(page) ==
    LET found == extract_guide_markup(page)
        noscript == extract_noscript(page)
    IN  IF found # <<>> /\ found[1] # <<>>
        THEN ParseSections(found[1], MarkupHeadings(found[1], 1), 1, TRUE, EmptyMap)
        ELSE IF noscript = <<>> \/ noscript[1] = <<>> THEN EmptyMap
        ELSE ParseSections(noscript[1], NoscriptHeadings(noscript[1]), 1, FALSE, EmptyMap)

(***************************************************************************)
(* Specification ParseSpec: parse_guide_slots called on one guide page     *)
(***************************************************************************)
\* the guide as written, rendered as the HTML of the noscript element
HtmlOf(toks) ==
    [i \in DOMAIN toks |-> IF toks[i].k = "item" THEN Ref("link", toks[i].n) ELSE toks[i]]
HtmlCell(content) == <<Tok("<td>")>> \o HtmlOf(content) \o <<Tok("</td>")>>
HtmlRow(cells) ==
    <<Tok("<tr>")>> \o Concat([i \in DOMAIN cells |-> HtmlCell(cells[i])]) \o <<Tok("</tr>")>>
HtmlTable(rows) ==
    <<Tok("<table>")>> \o Concat([i \in DOMAIN rows |-> HtmlRow(rows[i])])
        \o <<Tok("</table>")>>
RenderHtmlBlock(b) ==
    IF b.t \in {"h3", "h4"} THEN <<Tok("<h>"), Txt(b.name), Tok("</h>")>>
    ELSE IF b.t = "table" THEN HtmlTable(b.rows)
    ELSE HtmlOf(b.toks)
RenderHtml(blocks) == Concat([i \in DOMAIN blocks |-> RenderHtmlBlock(blocks[i])])

GuideHeaders ==
    {HeaderBlock("h3", <<"R", "i", "n", "g", "s">>), HeaderBlock("h4", <<"T", "r", "i", "n", "k", "e", "t", "s">>),
     HeaderBlock("h3", <<"H", "e", "a", "d">>), HeaderBlock("h4", <<"N", "o", "t", "e", "s">>)}

GuideBodies ==
    {<<>>,
     <<TableBlock(<<<<<<Txt(<<"R", "a", "n", "k", " ", "1">>)>>, <<Ref("item", 1)>>>>>>)>>,
     <<TableBlock(<<<<<<Txt(<<"R", "a", "n", "k", " ", "1">>)>>, <<Ref("item", 2), Ref("item", 1)>>>>,
                    <<<<Txt(<<"R", "a", "n", "k", " ", "2">>)>>, <<Ref("item", 1)>>>>>>)>>,
     <<InlineBlock(<<Ref("item", 2), Txt(<<"\n">>), Ref("item", 2)>>)>>,
     <<TableBlock(<<<<<<Ref("item", 1)>>>>>>)>>}

GuideSectionForms == {<<h>> \o body : h \in GuideHeaders, body \in GuideBodies}
GuideDocs == {Concat(ss) : ss \in SeqsUpTo(GuideSectionForms, MaxSections)}

\* how a page carries the guide: in a printHtml call with "guide-body", in
\* the noscript element, or in both
PageForms == {"markup", "noscript", "both"}
GuidePage(d, form) ==
    [script |-> IF form = "none" THEN <<>>
                ELSE IF form = "noscript"
                THEN <<Tok("printHtml"), Tok("q"), Txt(<<"H", "e", "a", "d">>), Tok("q"), Tok("rparen")>>
                ELSE <<Tok("printHtml"), Tok("q")>> \o json_dumps(Render(d))
                         \o <<Tok("q"), Tok("comma"), Tok("guideBody")>>,
     noscript |-> IF form \in {"markup", "none"} THEN <<>> ELSE <<RenderHtml(d)>>]

\* a guide page in one of the forms, or a page that is no guide: "none"
ParseInit ==
    /\ \/ guide_doc \in GuideDocs /\ page_form \in PageForms
       \/ guide_doc = <<>> /\ page_form = "none"
    /\ guide_page = GuidePage(guide_doc, page_form)
    /\ slot_to_items = EmptyMap
    /\ ppc = "call"
    /\ MergeIdle
    /\ ChainIdle
    /\ SlotIdle
    /\ ExtractIdle
    /\ BatchIdle
    /\ HeapIdle
    /\ ClassifyIdle
    /\ DecodeIdle
    /\ CheckIdle

ParseCall ==
    /\ ppc = "call"
    /\ slot_to_items' = parse_guide_slots(guide_page)
    /\ ppc' = "ret"
    /\ UNCHANGED <<guide_doc, page_form, guide_page>>
    /\ UNCHANGED <<mergeVars, chainVars, slotVars, extractVars, batchVars, heapVars, classVars, decodeVars, checkVars>>

ParseNext == ParseCall

ParseSpec == ParseInit /\ [][ParseNext]_vars

(***************************************************************************)
(* Claims about parse_guide_slots, stated against the guide as written     *)
(***************************************************************************)
\* the distinct items a written section refers to, in order of appearance
WrittenItems(sec) == FirstOccurrences(ItemIdsOf(Render(sec.body)))

\* the numeric slots a written heading stands for
WrittenSlots(name) ==
    IF name = <<"R", "i", "n", "g", "s">> THEN {11, 12}
    ELSE IF name = <<"T", "r", "i", "n", "k", "e", "t", "s">> THEN {13, 14}
    ELSE IF name = <<"H", "e", "a", "d">> THEN {1}
    ELSE {}

\* written section k is the last one of its heading that refers to items
LastOfHeading(secs, k) ==
    /\ WrittenItems(secs[k]) # <<>>
    /\ \A j \in DOMAIN secs :
           j > k /\ secs[j].name = secs[k].name => WrittenItems(secs[j]) = <<>>

\* C9: section_slot_ids returns [11, 12] for the heading "Rings" and
\* [13, 14] for "Trinkets", and parse_guide_slots stores the ranked items of
\* such a section under both ids, and under no id that no section names
C9_RingsAndTrinketsBothSlots ==
    LET secs == DocSections(guide_doc)
    IN  /\ \A k \in DOMAIN secs :
               LET body_text == TextOf(Render(secs[k].body))
               IN  /\ section_slot_ids(<<"R", "i", "n", "g", "s">>, body_text) = <<11, 12>>
                   /\ section_slot_ids(<<"T", "r", "i", "n", "k", "e", "t", "s">>, body_text) = <<13, 14>>
        /\ ppc = "ret" =>
               /\ \A k \in DOMAIN secs :
                      secs[k].name \in {<<"R", "i", "n", "g", "s">>, <<"T", "r", "i", "n", "k", "e", "t", "s">>} /\ LastOfHeading(secs, k)
                          => \A s \in WrittenSlots(secs[k].name) :
                                 /\ s \in DOMAIN slot_to_items
                                 /\ slot_to_items[s] = WrittenItems(secs[k])
               /\ DOMAIN slot_to_items
                      = UNION {WrittenSlots(secs[k].name) :
                                  k \in {j \in DOMAIN secs : WrittenItems(secs[j]) # <<>>}}

\* a guide with a Rings and a Trinkets section has been parsed
C9_Witness ==
    /\ ppc = "ret"
    /\ DOMAIN slot_to_items = {11, 12, 13, 14}
    /\ slot_to_items[11] = <<2, 1>>
    /\ slot_to_items[12] = <<2, 1>>
    /\ slot_to_items[13] = <<1>>
    /\ slot_to_items[14] = <<1>>
    /\ \E k \in DOMAIN DocSections(guide_doc) : DocSections(guide_doc)[k].name = <<"R", "i", "n", "g", "s">>

(***************************************************************************)
(* Claims about the hand and weapon rules of section_slot_ids              *)
(***************************************************************************)
\* the cues of the rules that come before the hand rule
EarlierCues ==
    {<<"h", "e", "a", "d">>, <<"n", "e", "c", "k">>, <<"s", "h", "o", "u", "l", "d", "e", "r">>, <<"b", "a", "c", "k">>, <<"c", "l", "o", "a", "k">>, <<"c", "h", "e", "s", "t">>, <<"w", "r", "i", "s", "t">>,
     <<"i", "d", "o", "l">>, <<"r", "e", "l", "i", "c">>, <<"t", "o", "t", "e", "m">>, <<"l", "i", "b", "r", "a", "m">>, <<"r", "a", "n", "g", "e", "d">>, <<"w", "a", "n", "d">>}

\* the weapon cues of the hand rule, each hand cue with a space, a hyphen or
\* nothing between its words
WeaponishCues == {<<"w", "e", "a", "p", "o", "n">>, <<"h", "a", "n", "d", "e", "d">>} \cup MainHandCues \cup OffHandCues

HandOrGlove(text) == AnyIn({<<"h", "a", "n", "d">>, <<"g", "l", "o", "v", "e">>}, Lower(text))

\* a weapon cue occurs in the heading or, when the heading says "hand", in
\* the section body
WeaponIsh(head_text, body_text) ==
    \/ AnyIn(WeaponishCues, Lower(head_text))
    \/ Contains(<<"h", "a", "n", "d">>, Lower(head_text)) /\ AnyIn(WeaponishCues, Lower(body_text))

\* C11: a heading containing "hand" or "glove" that no earlier rule takes
\* maps to Hands (10) when no weapon cue occurs in the heading or, for a
\* "hand" heading, in the body; otherwise the weapon rules decide, so the
\* result is not Hands.  "Gloves" without a weapon cue maps to Hands.
C11_HandsUnlessWeaponish ==
    spc = "ret" /\ HandOrGlove(heading) /\ ~AnyIn(EarlierCues, Lower(heading)) =>
        /\ ~WeaponIsh(heading, section_html) => target_slots = <<10>>
        /\ WeaponIsh(heading, section_html) => target_slots # <<10>>
        /\ heading = <<"G", "l", "o", "v", "e", "s">> => target_slots = <<10>>

(***************************************************************************)
(* batch_extract_and_report: guide file names                              *)
(* A file name is a sequence of words, the words of the name split at its  *)
(* single spaces; each word is text.                                       *)
(***************************************************************************)
\* str.startswith, with or without re.IGNORECASE
StartsWith(word, prefix, ci) ==
    /\ Len(word) >= Len(prefix)
    /\ IF ci THEN Lower(SubSeq(word, 1, Len(prefix))) = Lower(prefix)
       ELSE SubSeq(word, 1, Len(prefix)) = prefix

\* the literal words lits, each followed by a space, match at word p
WordsAt(words, p, lits, ci) ==
    /\ p + Len(lits) - 1 <= Len(words)
    /\ \A i \in DOMAIN lits :
           IF ci THEN Lower(words[p + i - 1]) = Lower(lits[i])
           ELSE words[p + i - 1] = lits[i]

\* the literal words lits match at word p, the last one ending the pattern
PrefixAt(words, p, lits, ci) ==
    /\ p + Len(lits) - 1 <= Len(words)
    /\ WordsAt(words, p, SubSeq(lits, 1, Len(lits) - 1), ci)
    /\ StartsWith(words[p + Len(lits) - 1], lits[Len(lits)], ci)

\* the last word of a lazy group (.+?) that starts at word first and is
\* followed by a space and a match of Rest; 0 when there is none
LazyGroupEnd(words, first, Rest(_)) ==
    LET J == {j \in first..(Len(words) - 1) : Rest(j + 1)}
    IN  IF J = {} THEN 0 ELSE CHOOSE j \in J : \A x \in J : j <= x

PhaseDigits == {"1", "2", "3", "4", "5"}

\* filename.replace(" - Wowhead.html", "")
RECURSIVE StripWowhead(_)
StripWowhead(words) ==
    IF Len(words) < 2 THEN words
    ELSE IF Len(words) >= 3 /\ words[2] = <<"-">> /\ StartsWith(words[3], <<"W", "o", "w", "h", "e", "a", "d", ".", "h", "t", "m", "l">>, FALSE)
         THEN LET rest == SubSeq(words[3], Len(<<"W", "o", "w", "h", "e", "a", "d", ".", "h", "t", "m", "l">>) + 1, Len(words[3]))
              IN  StripWowhead(<<words[1] \o rest>> \o SubSeq(words, 4, Len(words)))
    ELSE <<words[1]>> \o StripWowhead(Tail(words))

\* re.search(r"(DPS|Healing|Healer|Tank)", name, re.IGNORECASE).group(1),
\* or <<>> when nothing matches
RoleWords == <<<<"D", "P", "S">>, <<"H", "e", "a", "l", "i", "n", "g">>, <<"H", "e", "a", "l", "e", "r">>, <<"T", "a", "n", "k">>>>
RoleSearch(text) ==
    LET At(i) == {r \in DOMAIN RoleWords :
                     /\ i + Len(RoleWords[r]) - 1 <= Len(text)
                     /\ Lower(SubSeq(text, i, i + Len(RoleWords[r]) - 1)) = Lower(RoleWords[r])}
        I == {i \in DOMAIN text : At(i) # {}}
        i0 == CHOOSE i \in I : \A x \in I : i <= x
        r0 == CHOOSE r \in At(i0) : \A x \in At(i0) : r <= x
    IN  IF I = {} THEN <<>> ELSE SubSeq(text, i0, i0 + Len(RoleWords[r0]) - 1)

Guide(spec_name, phase_name, type) ==
    <<[spec |-> spec_name, phase |-> phase_name, guide_type |-> type]>>

\* lines 98-115: names that say "best in slot" and name a role and a raid
RoleRaidGuide(words) ==
    LET name == JoinWords(words)
        lower == Lower(name)
        j == LazyGroupEnd(words, 1, LAMBDA p :
                 \E r \in DOMAIN RoleWords : StartsWith(words[p], RoleWords[r], TRUE))
        found == RoleSearch(name)
        role == IF Lower(found) = <<"h", "e", "a", "l", "e", "r">> THEN <<"H", "e", "a", "l", "i", "n", "g">> ELSE found
        spec == JoinWords(SubSeq(words, 1, j)) \o <<" ">> \o role
    IN  IF ~Contains(<<"b", "e", "s", "t", " ", "i", "n", " ", "s", "l", "o", "t">>, lower) \/ j = 0 \/ found = <<>> THEN <<>>
        ELSE IF Contains(<<"k", "a", "r", "a", "z", "h", "a", "n">>, lower) THEN Guide(spec, <<"P", "1">>, "bis")
        ELSE IF Contains(<<"p", "h", "a", "s", "e", " ", "2">>, lower) THEN Guide(spec, <<"P", "2">>, "bis")
        ELSE IF Contains(<<"b", "t">>, lower) /\ Contains(<<"h", "y", "j", "a", "l">>, lower)
             THEN Guide(spec, <<"P", "3">>, "bis")
        ELSE IF Contains(<<"z", "a">>, lower) \/ Contains(<<"z", "u", "l", "-", "a", "m", "a", "n">>, lower)
             THEN Guide(spec, <<"P", "4">>, "bis")
        ELSE IF Contains(<<"s", "w", "p">>, lower) \/ Contains(<<"s", "u", "n", "w", "e", "l", "l">>, lower)
                \/ Contains(<<"p", "h", "a", "s", "e", " ", "5">>, lower)
             THEN Guide(spec, <<"P", "5">>, "bis")
        ELSE <<>>

\* parse_guide_name: <<the parsed name>>, or <<>> for None
parse_guide_name(filename) ==
    LET words == StripWowhead(filename)
        DigitAt(p) == p <= Len(words) /\ words[p] # <<>> /\ words[p][1] \in PhaseDigits
        j1 == IF WordsAt(words, 1, <<<<"B", "u", "r", "n", "i", "n", "g">>, <<"C", "r", "u", "s", "a", "d", "e">>, <<"C", "l", "a", "s", "s", "i", "c">>>>, FALSE)
              THEN LazyGroupEnd(words, 4, LAMBDA p :
                       /\ WordsAt(words, p, <<<<"B", "e", "s", "t">>, <<"i", "n">>, <<"S", "l", "o", "t">>, <<"(", "B", "i", "S", ")">>, <<"P", "h", "a", "s", "e">>>>, FALSE)
                       /\ DigitAt(p + 5))
              ELSE 0
        j2 == LazyGroupEnd(words, 1, LAMBDA p :
                  /\ WordsAt(words, p, <<<<"P", "h", "a", "s", "e">>>>, FALSE)
                  /\ DigitAt(p + 1)
                  /\ Len(words[p + 1]) = 1
                  /\ PrefixAt(words, p + 2, <<<<"B", "e", "s", "t">>, <<"i", "n">>, <<"S", "l", "o", "t">>, <<"(", "B", "i", "S", ")">>>>, FALSE))
        j3 == LazyGroupEnd(words, 1, LAMBDA p :
                  PrefixAt(words, p, <<<<"P", "r", "e", "-", "P", "a", "t", "c", "h">>, <<"B", "e", "s", "t">>, <<"i", "n">>, <<"S", "l", "o", "t">>>>, TRUE))
        role_raid == RoleRaidGuide(words)
        j5 == LazyGroupEnd(words, 1, LAMBDA p :
                  /\ WordsAt(words, p, <<<<"P", "r", "e", "-", "R", "a", "i", "d">>>>, TRUE)
                  /\ \/ PrefixAt(words, p + 1, <<<<"B", "e", "s", "t">>, <<"i", "n">>, <<"S", "l", "o", "t">>, <<"(", "B", "i", "S", ")">>>>, TRUE)
                     \/ PrefixAt(words, p + 1, <<<<"B", "e", "s", "t", "-", "i", "n", "-", "S", "l", "o", "t">>, <<"(", "B", "i", "S", ")">>>>, TRUE)
                     \/ PrefixAt(words, p + 1, <<<<"B", "e", "s", "t", "S", "l", "o", "t">>, <<"(", "B", "i", "S", ")">>>>, TRUE))
        GemsTail(p) ==
            \/ PrefixAt(words, p, <<<<"G", "e", "m", "s">>, <<"&">>, <<"E", "n", "c", "h", "a", "n", "t", "s">>, <<"G", "u", "i", "d", "e">>>>, TRUE)
            \/ PrefixAt(words, p, <<<<"G", "e", "m", "s">>, <<"a", "n", "d">>, <<"E", "n", "c", "h", "a", "n", "t", "s">>, <<"G", "u", "i", "d", "e">>>>, TRUE)
        tbc == WordsAt(words, 1, <<<<"T", "B", "C">>>>, TRUE)
        j6a == IF tbc THEN LazyGroupEnd(words, 2, GemsTail) ELSE 0
        j6b == LazyGroupEnd(words, 1, GemsTail)
    IN  IF j1 # 0
        THEN Guide(JoinWords(SubSeq(words, 4, j1)), <<"P", words[j1 + 6][1]>>, "bis")
        ELSE IF j2 # 0
        THEN Guide(JoinWords(SubSeq(words, 1, j2)), <<"P", words[j2 + 2][1]>>, "bis")
        ELSE IF j3 # 0 THEN Guide(JoinWords(SubSeq(words, 1, j3)), <<"P", "1">>, "bis")
        ELSE IF role_raid # <<>> THEN role_raid
        ELSE IF j5 # 0 THEN Guide(JoinWords(SubSeq(words, 1, j5)), <<"P", "R", "E", "_", "R", "A", "I", "D">>, "bis")
        ELSE IF j6a # 0
        THEN Guide(JoinWords(SubSeq(words, 2, j6a)), <<"A", "L", "L">>, "gems_enchants")
        ELSE IF j6b # 0
        THEN Guide(JoinWords(SubSeq(words, 1, j6b)), <<"A", "L", "L">>, "gems_enchants")
        ELSE <<>>

\* expand_spec_targets
expand_spec_targets(spec, type) ==
    IF type # "gems_enchants" THEN <<spec>>
    ELSE IF spec = <<"W", "a", "r", "l", "o", "c", "k", " ", "D", "P", "S">>
         THEN <<<<"A", "f", "f", "l", "i", "c", "t", "i", "o", "n", " ", "W", "a", "r", "l", "o", "c", "k", " ", "D", "P", "S">>, <<"D", "e", "m", "o", "n", "o", "l", "o", "g", "y", " ", "W", "a", "r", "l", "o", "c", "k", " ", "D", "P", "S">>,
                <<"D", "e", "s", "t", "r", "u", "c", "t", "i", "o", "n", " ", "W", "a", "r", "l", "o", "c", "k", " ", "D", "P", "S">>>>
    ELSE IF spec = <<"M", "a", "g", "e", " ", "D", "P", "S">>
         THEN <<<<"A", "r", "c", "a", "n", "e", " ", "M", "a", "g", "e", " ", "D", "P", "S">>, <<"F", "i", "r", "e", " ", "M", "a", "g", "e", " ", "D", "P", "S">>, <<"F", "r", "o", "s", "t", " ", "M", "a", "g", "e", " ", "D", "P", "S">>>>
    ELSE IF spec = <<"H", "u", "n", "t", "e", "r", " ", "D", "P", "S">>
         THEN <<<<"B", "e", "a", "s", "t", " ", "M", "a", "s", "t", "e", "r", "y", " ", "H", "u", "n", "t", "e", "r", " ", "D", "P", "S">>, <<"M", "a", "r", "k", "s", "m", "a", "n", "s", "h", "i", "p", " ", "H", "u", "n", "t", "e", "r", " ", "D", "P", "S">>,
                <<"S", "u", "r", "v", "i", "v", "a", "l", " ", "H", "u", "n", "t", "e", "r", " ", "D", "P", "S">>>>
    ELSE IF spec = <<"P", "r", "i", "e", "s", "t", " ", "D", "P", "S">> THEN <<<<"S", "h", "a", "d", "o", "w", " ", "P", "r", "i", "e", "s", "t", " ", "D", "P", "S">>>>
    ELSE IF spec = <<"W", "a", "r", "r", "i", "o", "r", " ", "D", "P", "S">> THEN <<<<"A", "r", "m", "s", " ", "W", "a", "r", "r", "i", "o", "r", " ", "D", "P", "S">>, <<"F", "u", "r", "y", " ", "W", "a", "r", "r", "i", "o", "r", " ", "D", "P", "S">>>>
    ELSE <<spec>>

(***************************************************************************)
(* batch_extract_and_report: sorting, header reports, load_guides          *)
(***************************************************************************)
\* the characters of the names and headers, in code point order
CodeOrder ==
    <<"\n", " ", "&", "(", ")", "-", ".", "0", "1", "2", "3", "4", "5", "6", "7", "8", "9">>
    \o UpperChars \o <<"_">> \o LowerChars

CodePoint(c) == CHOOSE i \in DOMAIN CodeOrder : CodeOrder[i] = c

\* a < b for two str values: they differ first at position k, where a has
\* ended or has the smaller code point
StrLess(a, b) ==
    \E k \in 1..Len(b) :
        /\ Len(a) >= k - 1
        /\ SubSeq(a, 1, k - 1) = SubSeq(b, 1, k - 1)
        /\ \/ Len(a) = k - 1
           \/ CodePoint(a[k]) < CodePoint(b[k])

\* sorted(set_of_str): the least string first, then the others sorted
RECURSIVE SortedStrings(_)
SortedStrings(S) ==
    IF S = {} THEN <<>>
    ELSE LET least == CHOOSE s \in S : \A t \in S : ~StrLess(t, s)
         IN  <<least>> \o SortedStrings(S \ {least})

EXPECTED_SLOTS ==
    {<<"H", "e", "a", "d">>, <<"S", "h", "o", "u", "l", "d", "e", "r", "s">>, <<"B", "a", "c", "k">>, <<"C", "h", "e", "s", "t">>, <<"W", "r", "i", "s", "t">>, <<"H", "a", "n", "d", "s">>, <<"W", "a", "i", "s", "t">>,
     <<"L", "e", "g", "s">>, <<"F", "e", "e", "t">>, <<"N", "e", "c", "k">>, <<"R", "i", "n", "g", "s">>, <<"T", "r", "i", "n", "k", "e", "t", "s">>, <<"W", "e", "a", "p", "o", "n", "s">>, <<"O", "f", "f", "-", "H", "a", "n", "d">>,
     <<"M", "a", "i", "n", "-", "H", "a", "n", "d">>, <<"R", "a", "n", "g", "e", "d">>, <<"T", "o", "t", "e", "m", "s">>, <<"I", "d", "o", "l", "s">>, <<"L", "i", "b", "r", "a", "m", "s">>}

\* sorted(EXPECTED_SLOTS); sorted(EXPECTED_SLOTS - names) is this list
\* without the names
SortedExpected == SortedStrings(EXPECTED_SLOTS)

\* the alternatives of SLOT_HINT_RE
SlotHints ==
    {<<"h", "e", "a", "d">>, <<"h", "e", "l", "m">>, <<"s", "h", "o", "u", "l", "d", "e", "r">>, <<"b", "a", "c", "k">>, <<"c", "l", "o", "a", "k">>, <<"c", "h", "e", "s", "t">>, <<"w", "r", "i", "s", "t">>,
     <<"b", "r", "a", "c", "e", "r">>, <<"h", "a", "n", "d">>, <<"g", "l", "o", "v", "e">>, <<"w", "a", "i", "s", "t">>, <<"b", "e", "l", "t">>, <<"l", "e", "g">>, <<"f", "e", "e", "t">>, <<"b", "o", "o", "t">>,
     <<"n", "e", "c", "k">>, <<"r", "i", "n", "g">>, <<"t", "r", "i", "n", "k", "e", "t">>, <<"w", "e", "a", "p", "o", "n">>, <<"o", "f", "f", "-", "h", "a", "n", "d">>, <<"o", "f", "f", " ", "h", "a", "n", "d">>,
     <<"o", "f", "f", "h", "a", "n", "d">>, <<"m", "a", "i", "n", "-", "h", "a", "n", "d">>, <<"m", "a", "i", "n", " ", "h", "a", "n", "d">>, <<"m", "a", "i", "n", "h", "a", "n", "d">>, <<"r", "a", "n", "g", "e", "d">>, <<"t", "o", "t", "e", "m">>,
     <<"i", "d", "o", "l">>, <<"l", "i", "b", "r", "a", "m">>}

SLOT_HINT_search(header) == \E h \in SlotHints : Contains(h, Lower(header))

\* extract_headers: the stripped toc names of the h3 headers
extract_headers(toks) ==
    LET hs == H3Headers(toks, 1)
    IN  [i \in DOMAIN hs |-> Strip(hs[i].name)]

\* detect_slot_like_unparsed
detect_slot_like_unparsed(headers, parsed_slots) ==
    SortedStrings({headers[i] : i \in {j \in DOMAIN headers :
                       /\ SLOT_HINT_search(headers[j])
                       /\ normalize_slot(headers[j]) \notin parsed_slots}})

\* "\n".join(headers)
RECURSIVE JoinLines(_)
JoinLines(lines) ==
    IF lines = <<>> THEN <<>>
    ELSE IF Len(lines) = 1 THEN lines[1]
    ELSE lines[1] \o <<"\n">> \o JoinLines(Tail(lines))

WordChar(c) ==
    c \in Range(UpperChars) \cup Range(LowerChars)
          \cup {"0", "1", "2", "3", "4", "5", "6", "7", "8", "9", "_"}

\* re.search of \b(needle)\b, IGNORECASE, for one of the needles
WordSearch(needles, text) ==
    \E n \in needles : \E i \in DOMAIN text :
        /\ i + Len(n) - 1 <= Len(text)
        /\ Lower(SubSeq(text, i, i + Len(n) - 1)) = n
        /\ i > 1 => ~WordChar(text[i - 1])
        /\ i + Len(n) <= Len(text) => ~WordChar(text[i + Len(n)])

\* detect_data_types
detect_data_types(headers, type) ==
    LET joined == JoinLines(headers)
    IN  [gems |-> type = "gems_enchants" \/ WordSearch({<<"g", "e", "m">>, <<"g", "e", "m", "s">>}, joined),
         enchants |-> type = "gems_enchants"
                          \/ WordSearch({<<"e", "n", "c", "h", "a", "n", "t">>, <<"e", "n", "c", "h", "a", "n", "t", "s">>}, joined),
         stat_weights |-> \E n \in {<<"s", "t", "a", "t", " ", "w", "e", "i", "g", "h", "t">>, <<"s", "t", "a", "t", " ", "p", "r", "i", "o", "r", "i", "t", "y">>, <<"s", "t", "a", "t", " ", "s", "c", "a", "l", "i", "n", "g">>} :
                              Contains(n, Lower(joined)),
         overrides |-> WordSearch({<<"o", "v", "e", "r", "r", "i", "d", "e">>, <<"o", "v", "e", "r", "r", "i", "d", "e", "s">>, <<"s", "p", "e", "c", "i", "a", "l", " ", "i", "t", "e", "m">>,
                                   <<"s", "p", "e", "c", "i", "a", "l", " ", "i", "t", "e", "m", "s">>, <<"s", "p", "e", "c", "i", "a", "l", " ", "c", "a", "s", "e">>, <<"s", "p", "e", "c", "i", "a", "l", " ", "c", "a", "s", "e", "s">>,
                                   <<"p", "r", "o", "c">>, <<"p", "r", "o", "c", "s">>}, joined)]

\* sorted(input_dir.glob("*.html")): the files whose name ends in .html,
\* by name
GlobHtmlSorted(dir) ==
    LET html == {f \in dir :
                    LET n == JoinWords(f.name)
                    IN  /\ Len(n) >= 5
                        /\ SubSeq(n, Len(n) - 4, Len(n)) = <<".", "h", "t", "m", "l">>}
        names == SortedStrings({JoinWords(f.name) : f \in html})
    IN  [k \in DOMAIN names |-> CHOOSE f \in html : JoinWords(f.name) = names[k]]

\* str(exc) of what extract_markup raises
MarkupErrorText(page) ==
    IF PRINT_HTML_search(page.script) = <<>>
    THEN <<"C", "o", "u", "l", "d", " ", "n", "o", "t", " ", "f", "i", "n", "d", " ", "W", "H", ".", "m", "a", "r", "k", "u", "p", ".", "p", "r", "i", "n", "t", "H", "t", "m", "l", " ", "c", "o", "n", "t", "e", "n", "t">>
    ELSE <<"J", "S", "O", "N", "D", "e", "c", "o", "d", "e", "E", "r", "r", "o", "r">>

RECURSIVE ItemCount(_)
ItemCount(slots) ==
    IF slots = <<>> THEN 0 ELSE Len(Head(slots).items) + ItemCount(Tail(slots))

\* mutation: the placeholder does not keep the error
FailedGuide_NoError(parsed, file) ==
    [spec |-> parsed.spec, phase |-> parsed.phase, guide_type |-> parsed.guide_type,
     applies_to_specs |-> expand_spec_targets(parsed.spec, parsed.guide_type),
     file |-> JoinWords(file.name),
     parse_error |-> <<>>,
     slots |-> <<>>,
     slot_count |-> 0,
     item_count |-> 0,
     missing_expected_slots |-> SortedExpected,
     unparsed_slot_like_headers |-> <<>>,
     data_types_detected |-> [gems |-> FALSE, enchants |-> FALSE,
                              stat_weights |-> FALSE, overrides |-> FALSE]]

\* lines 189-207: the record of a guide whose extraction raised
FailedGuide(parsed, file) ==
    [spec |-> parsed.spec, phase |-> parsed.phase, guide_type |-> parsed.guide_type,
     applies_to_specs |-> expand_spec_targets(parsed.spec, parsed.guide_type),
     file |-> JoinWords(file.name),
     parse_error |-> <<MarkupErrorText(file.text)>>,
     slots |-> <<>>,
     slot_count |-> 0,
     item_count |-> 0,
     missing_expected_slots |-> SortedExpected,
     unparsed_slot_like_headers |-> <<>>,
     data_types_detected |-> [gems |-> FALSE, enchants |-> FALSE,
                              stat_weights |-> FALSE, overrides |-> FALSE]]

\* lines 210-229: the record of a guide that was extracted, from the slots
\* and headers of lines 186-187; parse_error <<>> stands for None
LoadedGuide(parsed, file, slots, headers) ==
    LET parsed_slots == {slots[i].slot : i \in DOMAIN slots}
    IN  [spec |-> parsed.spec, phase |-> parsed.phase, guide_type |-> parsed.guide_type,
         applies_to_specs |-> expand_spec_targets(parsed.spec, parsed.guide_type),
         file |-> JoinWords(file.name),
         parse_error |-> <<>>,
         slots |-> slots,
         slot_count |-> Len(slots),
         item_count |-> ItemCount(slots),
         missing_expected_slots |-> SelectSeq(SortedExpected, LAMBDA s : s \notin parsed_slots),
         unparsed_slot_like_headers |-> detect_slot_like_unparsed(headers, parsed_slots),
         data_types_detected |-> detect_data_types(headers, parsed.guide_type)]

(***************************************************************************)
(* Specification BatchSpec: load_guides on one input directory             *)
(***************************************************************************)
WowheadSuffix == <<<<"-">>, <<"W", "o", "w", "h", "e", "a", "d", ".", "h", "t", "m", "l">>>>

FileNames ==
    {<<<<"B", "u", "r", "n", "i", "n", "g">>, <<"C", "r", "u", "s", "a", "d", "e">>, <<"C", "l", "a", "s", "s", "i", "c">>, <<"F", "i", "r", "e">>, <<"M", "a", "g", "e">>, <<"D", "P", "S">>, <<"B", "e", "s", "t">>, <<"i", "n">>,
       <<"S", "l", "o", "t">>, <<"(", "B", "i", "S", ")">>, <<"P", "h", "a", "s", "e">>, <<"3">>>> \o WowheadSuffix,
     <<<<"H", "o", "l", "y">>, <<"P", "a", "l", "a", "d", "i", "n">>, <<"H", "e", "a", "l", "e", "r">>, <<"K", "a", "r", "a", "z", "h", "a", "n">>, <<"B", "e", "s", "t">>, <<"i", "n">>, <<"S", "l", "o", "t">>>>
         \o WowheadSuffix,
     <<<<"M", "a", "g", "e">>, <<"D", "P", "S">>, <<"G", "e", "m", "s">>, <<"&">>, <<"E", "n", "c", "h", "a", "n", "t", "s">>, <<"G", "u", "i", "d", "e">>>> \o WowheadSuffix,
     <<<<"M", "a", "g", "e">>, <<"L", "e", "v", "e", "l", "i", "n", "g">>, <<"G", "u", "i", "d", "e">>>> \o WowheadSuffix,
     <<<<"P", "r", "o", "t", "e", "c", "t", "i", "o", "n">>, <<"W", "a", "r", "r", "i", "o", "r">>, <<"T", "a", "n", "k">>, <<"P", "r", "e", "-", "R", "a", "i", "d">>, <<"B", "e", "s", "t">>, <<"i", "n">>, <<"S", "l", "o", "t">>,
       <<"(", "B", "i", "S", ")">>>> \o WowheadSuffix,
     <<<<"S", "h", "a", "d", "o", "w">>, <<"P", "r", "i", "e", "s", "t">>, <<"D", "P", "S">>, <<"P", "h", "a", "s", "e">>, <<"2">>, <<"B", "e", "s", "t">>, <<"i", "n">>, <<"S", "l", "o", "t">>, <<"(", "B", "i", "S", ")">>>>
         \o WowheadSuffix,
     <<<<"R", "E", "A", "D", "M", "E", ".", "m", "d">>>>}

\* a page without printHtml call, a page with a bad escape, a one-section
\* guide, and a guide with slot-like headers of both levels that name no
\* slot
NoPayloadPage == [script |-> <<>>, addData |-> <<>>]
BadEscapePage ==
    [script |-> <<Tok("printHtml"), Tok("q"), Tok("bs"), Txt(<<"x">>), Tok("q"),
                  Tok("rparen")>>, addData |-> <<>>]
HeadPage ==
    PageOf(Render(<<HeadHeader, TableBlock(<<<<<<Txt(<<"R", "a", "n", "k", " ", "1">>)>>, <<Ref("item", 1)>>>>>>)>>),
           <<[i \in ItemIds |-> ItemData(i)]>>)
BootsPage ==
    PageOf(Render(<<HeaderBlock("h3", <<"B", "o", "o", "t", "s">>),
                    TableBlock(<<<<<<Txt(<<"R", "a", "n", "k", " ", "1">>)>>, <<Ref("item", 1)>>>>>>),
                    HeadHeader,
                    TableBlock(<<<<<<Txt(<<"R", "a", "n", "k", " ", "1">>)>>, <<Ref("item", 1), Ref("item", 2)>>>>>>),
                    HeaderBlock("h4", <<"B", "r", "a", "c", "e", "r", "s">>),
                    TableBlock(<<<<<<Txt(<<"R", "a", "n", "k", " ", "1">>)>>, <<Ref("item", 2)>>>>>>)>>),
           <<>>)
BatchPages == {NoPayloadPage, BadEscapePage, HeadPage, BootsPage}

\* directories of up to MaxFiles files
Directories ==
    UNION {{{[name |-> n, text |-> f[n]] : n \in N} : f \in [N -> BatchPages]} :
              N \in {M \in SUBSET FileNames : Cardinality(M) <= MaxFiles}}

BatchInit ==
    /\ input_dir \in Directories
    /\ guides = <<>>
    /\ html_paths = <<>>
    /\ load_idx = 0
    /\ MergeIdle
    /\ ChainIdle
    /\ SlotIdle
    /\ ExtractIdle
    /\ ParseIdle
    /\ HeapIdle
    /\ ClassifyIdle
    /\ DecodeIdle
    /\ CheckIdle

\* lines 175-177: the empty list and the sorted files the loop runs over
LoadStart ==
    /\ load_idx = 0
    /\ guides' = <<>>
    /\ html_paths' = GlobHtmlSorted(input_dir)
    /\ load_idx' = 1
    /\ UNCHANGED input_dir
    /\ UNCHANGED <<mergeVars, chainVars, slotVars, extractVars, parseVars, heapVars, classVars, decodeVars, checkVars>>

\* lines 178-180: the name is not a guide's
LoadSkip ==
    /\ load_idx \in DOMAIN html_paths
    /\ parse_guide_name(html_paths[load_idx].name) = <<>>
    /\ load_idx' = load_idx + 1
    /\ UNCHANGED <<input_dir, guides, html_paths>>
    /\ UNCHANGED <<mergeVars, chainVars, slotVars, extractVars, parseVars, heapVars, classVars, decodeVars, checkVars>>

\* lines 182-208: the extraction raises
LoadFailed ==
    /\ load_idx \in DOMAIN html_paths
    /\ \E parsed \in {parse_guide_name(html_paths[load_idx].name)} :
           /\ parsed # <<>>
           /\ ~extract_markup(html_paths[load_idx].text).ok
           /\ guides' = Append(guides, FailedGuide(parsed[1], html_paths[load_idx]))
    /\ load_idx' = load_idx + 1
    /\ UNCHANGED <<input_dir, html_paths>>
    /\ UNCHANGED <<mergeVars, chainVars, slotVars, extractVars, parseVars, heapVars, classVars, decodeVars, checkVars>>

\* lines 182-187 and 210-229
LoadExtracted ==
    /\ load_idx \in DOMAIN html_paths
    /\ \E parsed \in {parse_guide_name(html_paths[load_idx].name)} :
           /\ parsed # <<>>
           /\ extract_markup(html_paths[load_idx].text).ok
           /\ \E markup \in {extract_markup(html_paths[load_idx].text).toks} :
              \E lookup \in {extract_item_lookup(html_paths[load_idx].text)} :
              \E slots \in {extract_by_slot(markup, lookup, parsed[1].guide_type)} :
              \E headers \in {extract_headers(markup)} :
                  guides' = Append(guides, LoadedGuide(parsed[1], html_paths[load_idx],
                                                       slots, headers))
    /\ load_idx' = load_idx + 1
    /\ UNCHANGED <<input_dir, html_paths>>
    /\ UNCHANGED <<mergeVars, chainVars, slotVars, extractVars, parseVars, heapVars, classVars, decodeVars, checkVars>>

BatchNext ==
    \/ LoadStart
    \/ LoadSkip
    \/ LoadFailed
    \/ LoadExtracted

BatchSpec == BatchInit /\ [][BatchNext]_vars

(***************************************************************************)
(* Claims about load_guides                                                *)
(***************************************************************************)
\* load_guides has returned
Loaded == load_idx > Len(html_paths)

\* the files of the directory that are guides by their name
GuideFiles ==
    {f \in input_dir :
        /\ f.name # <<<<"R", "E", "A", "D", "M", "E", ".", "m", "d">>>>
        /\ f.name # <<<<"M", "a", "g", "e">>, <<"L", "e", "v", "e", "l", "i", "n", "g">>, <<"G", "u", "i", "d", "e">>>> \o WowheadSuffix}

RecordOf(f) == CHOOSE i \in DOMAIN guides : guides[i].file = JoinWords(f.name)

\* C12: load_guides returns exactly one record per file with a guide's
\* name, in sorted file order; a file whose extraction fails gets a
\* placeholder with parse_error set, no slots and zero counts, and every
\* other file of the batch is still extracted
C12_BatchPartialFailure ==
    Loaded =>
        /\ Len(guides) = Cardinality(GuideFiles)
        /\ \A f \in GuideFiles : \E i \in DOMAIN guides : guides[i].file = JoinWords(f.name)
        /\ \A i, j \in DOMAIN guides : i < j => StrLess(guides[i].file, guides[j].file)
        /\ \A f \in GuideFiles :
               /\ f.text \in {NoPayloadPage, BadEscapePage} =>
                      /\ guides[RecordOf(f)].parse_error # <<>>
                      /\ guides[RecordOf(f)].slots = <<>>
                      /\ guides[RecordOf(f)].slot_count = 0
                      /\ guides[RecordOf(f)].item_count = 0
               /\ f.text = HeadPage =>
                      /\ guides[RecordOf(f)].parse_error = <<>>
                      /\ guides[RecordOf(f)].slot_count = 1
                      /\ guides[RecordOf(f)].item_count = 1
               /\ f.text = BootsPage =>
                      /\ guides[RecordOf(f)].parse_error = <<>>
                      /\ guides[RecordOf(f)].slot_count = 1
                      /\ guides[RecordOf(f)].item_count = 2

\* a batch whose first guide fails and whose second is extracted
C12_Witness ==
    /\ Loaded
    /\ Len(guides) = 2
    /\ guides[1].parse_error = <<<<"C", "o", "u", "l", "d", " ", "n", "o", "t", " ", "f", "i", "n", "d", " ", "W", "H", ".", "m", "a", "r", "k", "u", "p", ".", "p", "r", "i", "n", "t", "H", "t", "m", "l", " ", "c", "o", "n", "t", "e", "n", "t">>>>
    /\ guides[2].parse_error = <<>>
    /\ guides[2].item_count >= 1

(***************************************************************************)
(* Claims about a page without printHtml payload                           *)
(***************************************************************************)
\* C13: on a page without printHtml payload the location of the markup fails
\* with an error that reaches the caller: parse_guide_slots, whose only
\* outcome here is a returned map, never returns an empty map from it
C13_MissingPayloadFails ==
    ppc = "ret" /\ GuideBodySearch(guide_page.script, 1) = <<>> =>
        slot_to_items # EmptyMap

(***************************************************************************)
(* Specification HeapSpec: the phase loop of main (lines 418-435) with the *)
(* dicts and lists it handles as objects on a heap. Two names that hold    *)
(* one address are two names of one object.                                *)
(***************************************************************************)
NewDict(refs, by) == [kind |-> "dict", refs |-> refs, items |-> <<>>, by |-> by]
NewList(items, by) == [kind |-> "list", refs |-> EmptyMap, items |-> items, by |-> by]

\* the dict of lists the object at address a stands for
DictValue(h, a) == [s \in DOMAIN h[a].refs |-> h[h[a].refs[s]].items]

\* the slot ids in ascending order
SortedIds(S) ==
    [k \in 1..Cardinality(S) |-> CHOOSE s \in S : Cardinality({t \in S : t < s}) = k - 1]

\* lines 420-425: slot_map = {}, or what parse_guide_slots returns for a
\* guide with a Rings section: a new dict, with the one list "ranked" under
\* both ring slots (lines 268 and 304-305)
HeapParse(h, ranked) ==
    IF ranked = <<>>
    THEN [heap |-> Append(h, NewDict(EmptyMap, "main")), ref |-> Len(h) + 1]
    ELSE [heap |-> h \o <<NewDict([s \in {11, 12} |-> Len(h) + 2], "parse"),
                          NewList(ranked, "parse")>>,
          ref |-> Len(h) + 1]

\* mutation: the prior map is filled in place and returned
HeapMerge_InPlace(h, p, c) ==
    LET result == merge_slot_maps(DictValue(h, p), DictValue(h, c))
        kept == SortedIds(DOMAIN result)
    IN  [heap |-> [a \in DOMAIN h |->
                      IF a = p
                      THEN NewDict([s \in DOMAIN result |->
                                       Len(h) + (CHOOSE k \in DOMAIN kept : kept[k] = s)],
                                   h[p].by)
                      ELSE h[a]]
                  \o [k \in DOMAIN kept |-> NewList(result[kept[k]], "merge")],
         ref |-> p]

\* merge_slot_maps on the objects at p and c: "merged" is a new dict (line
\* 311) and each "ordered" it keeps a new list (lines 314 and 322)
HeapMerge(h, p, c) ==
    LET result == merge_slot_maps(DictValue(h, p), DictValue(h, c))
        kept == SortedIds(DOMAIN result)
    IN  [heap |-> h \o <<NewDict([s \in DOMAIN result |->
                                     Len(h) + 1 + (CHOOSE k \in DOMAIN kept : kept[k] = s)],
                                 "merge")>>
                    \o [k \in DOMAIN kept |-> NewList(result[kept[k]], "merge")],
         ref |-> Len(h) + 1]

\* the ranked list of a phase: without duplicate, empty when the phase has no guide
RankedLists == {l \in SeqsUpTo(ItemIds, MaxRanked) : NoDup(l)}

\* the entries of the lists parse_guide_slots has built so far
RECURSIVE ParsedEntries(_)
ParsedEntries(h) ==
    IF h = <<>> THEN 0
    ELSE (IF Head(h).kind = "list" /\ Head(h).by = "parse" THEN Len(Head(h).items) ELSE 0)
         + ParsedEntries(Tail(h))

\* line 418: prev_slot_map = {}
HeapInit ==
    /\ heap = <<NewDict(EmptyMap, "main")>>
    /\ prev_slot_map_ref = 1
    /\ slot_map_ref = 0
    /\ loop_phase = 1
    /\ loop_pc = "parse"
    /\ profile_refs = EmptyMap
    /\ recorded_slots = EmptyMap
    /\ MergeIdle
    /\ ChainIdle
    /\ SlotIdle
    /\ ExtractIdle
    /\ ParseIdle
    /\ BatchIdle
    /\ ClassifyIdle
    /\ DecodeIdle
    /\ CheckIdle

\* lines 419-425
LoopParse ==
    /\ loop_pc = "parse"
    /\ loop_phase <= NumPhases
    /\ \E ranked \in RankedLists :
           /\ ParsedEntries(heap) + Len(ranked) <= MaxGuideEntries
           /\ heap' = HeapParse(heap, ranked).heap
           /\ slot_map_ref' = HeapParse(heap, ranked).ref
    /\ loop_pc' = "merge"
    /\ UNCHANGED <<loop_phase, prev_slot_map_ref, profile_refs, recorded_slots>>
    /\ UNCHANGED <<mergeVars, chainVars, slotVars, extractVars, parseVars, batchVars, classVars, decodeVars, checkVars>>

\* lines 427-428
LoopMerge ==
    /\ loop_pc = "merge"
    /\ IF loop_phase > 1
       THEN /\ heap' = HeapMerge(heap, prev_slot_map_ref, slot_map_ref).heap
            /\ slot_map_ref' = HeapMerge(heap, prev_slot_map_ref, slot_map_ref).ref
       ELSE UNCHANGED <<heap, slot_map_ref>>
    /\ loop_pc' = "record"
    /\ UNCHANGED <<loop_phase, prev_slot_map_ref, profile_refs, recorded_slots>>
    /\ UNCHANGED <<mergeVars, chainVars, slotVars, extractVars, parseVars, batchVars, classVars, decodeVars, checkVars>>

\* lines 430-435, and the step of the loop
LoopRecord ==
    /\ loop_pc = "record"
    /\ IF DOMAIN heap[slot_map_ref].refs # {}
       THEN /\ profile_refs' = [k \in DOMAIN profile_refs \cup {loop_phase} |->
                                   IF k = loop_phase THEN slot_map_ref ELSE profile_refs[k]]
            /\ recorded_slots' = [k \in DOMAIN recorded_slots \cup {loop_phase} |->
                                     IF k = loop_phase THEN DictValue(heap, slot_map_ref)
                                     ELSE recorded_slots[k]]
            /\ prev_slot_map_ref' = slot_map_ref
       ELSE UNCHANGED <<profile_refs, recorded_slots, prev_slot_map_ref>>
    /\ loop_phase' = loop_phase + 1
    /\ loop_pc' = "parse"
    /\ UNCHANGED <<heap, slot_map_ref>>
    /\ UNCHANGED <<mergeVars, chainVars, slotVars, extractVars, parseVars, batchVars, classVars, decodeVars, checkVars>>

HeapNext ==
    \/ LoopParse
    \/ LoopMerge
    \/ LoopRecord

HeapSpec == HeapInit /\ [][HeapNext]_vars

(***************************************************************************)
(* Claims about the objects of the phase loop                              *)
(***************************************************************************)
\* C14: merge_slot_maps changes no object that exists when it is called,
\* its two input dicts and their lists among them, and returns a dict that
\* did not exist before; and every map the loop has recorded for a phase
\* still has the value it was recorded with, whatever later phases did
C14_MergeIsPure ==
    [][/\ loop_pc = "merge" /\ loop_phase > 1 =>
              /\ \A a \in DOMAIN heap : heap'[a] = heap[a]
              /\ slot_map_ref' \notin DOMAIN heap
       /\ \A k \in DOMAIN profile_refs' :
              DictValue(heap', profile_refs'[k]) = recorded_slots'[k]]_vars

\* phases 1 and 2 are recorded as two objects, the second a merge that
\* extends the first, and a later phase has been merged since
C14_Witness ==
    /\ loop_phase >= 4
    /\ {1, 2} \subseteq DOMAIN profile_refs
    /\ profile_refs[1] # profile_refs[2]
    /\ recorded_slots[1] # recorded_slots[2]
    /\ Len(recorded_slots[2][11]) > Len(recorded_slots[1][11])
    /\ heap[profile_refs[1]].refs[11] = heap[profile_refs[1]].refs[12]

(***************************************************************************)
(* Claims about the rows and the inline references of a section            *)
(***************************************************************************)
\* the written sections whose header names a slot, once the extraction is done
SlotSections ==
    IF epc # "done" THEN {}
    ELSE {k \in DOMAIN DocSections(doc) :
             DocSlot(DocSections(doc)[k].name, arg_guide_type) # None}

\* C15: a table row produces entries only if it has two cells or more and
\* a first cell whose cleaned text is neither empty nor "rank": the list of
\* a section with such rows holds their entries and no others, the r-th
\* such row has order r whatever rows stand before it, and in a bis guide
\* a section without such a row gives no entry at all
C15_OnlyRankedRowsYield ==
    /\ epc = "done" =>
           Len(grouped) = Cardinality({k \in DOMAIN DocSections(doc) :
                                          Yields(DocSections(doc)[k], arg_guide_type)})
    /\ \A k \in TableSections :
           LET rows == RankedRows(DocSections(doc)[k])
           IN  /\ Len(ListOf(k)) = EntriesBefore(rows, Len(rows) + 1)
               /\ \A r \in DOMAIN rows :
                      \A e \in Range(RowSlice(ListOf(k), rows, r)) :
                          /\ e.order = r
                          /\ e.rank = CellText(rows[r][1])

\* a section whose first row is the column titles and whose second row
\* ranks an item has been extracted
C15_Witness ==
    \E k \in TableSections :
        /\ Len(SectionRows(DocSections(doc)[k])) = 2
        /\ Lower(CellText(SectionRows(DocSections(doc)[k])[1][1])) = <<"r", "a", "n", "k">>
        /\ RankedRow(SectionRows(DocSections(doc)[k])[2])
        /\ Len(ListOf(k)) = 1
        /\ ListOf(k)[1].order = 1

\* a row with two cells or more and a rank label in the first
ValidRow(row) ==
    /\ Len(row) >= 2
    /\ CellText(row[1]) # <<>>
    /\ Lower(CellText(row[1])) # <<"r", "a", "n", "k">>

\* written section k has no valid row and refers to an item or a spell
InlineOnly(k) ==
    /\ \A r \in Range(SectionRows(DocSections(doc)[k])) : ~ValidRow(r)
    /\ HasRef(DocSections(doc)[k])

\* the results hold items for the slot of written section k
YieldsItems(k) ==
    \E g \in DOMAIN grouped :
        /\ grouped[g].slot = DocSlot(DocSections(doc)[k].name, arg_guide_type)
        /\ grouped[g].items # <<>>

WrittenRefs(sec) ==
    LET refs == SelectSeq(Render(sec.body), LAMBDA t : t.k \in {"item", "spell"})
    IN  [i \in DOMAIN refs |-> <<refs[i].k, refs[i].n>>]

\* the written sections the inline scan is applied to
InlineSections ==
    {k \in SlotSections :
        /\ arg_guide_type = "gems_enchants"
        /\ RankedRows(DocSections(doc)[k]) = <<>>
        /\ HasRef(DocSections(doc)[k])}

\* C17: the entries of the inline scan are the references of the section in
\* document order, each (ref_type, ref_id) once, with order 1, 2, 3, ...,
\* rank "Best" for the first and "Alternative" for every later one
C17_InlineEntries ==
    \A k \in InlineSections :
        LET refs == FirstOccurrences(WrittenRefs(DocSections(doc)[k]))
        IN  /\ ResultIndex(DocSections(doc), k, arg_guide_type) \in DOMAIN grouped
            /\ Len(ListOf(k)) = Len(refs)
            /\ \A i \in DOMAIN refs :
                   /\ <<ListOf(k)[i].ref_type, ListOf(k)[i].ref_id>> = refs[i]
                   /\ ListOf(k)[i].order = i
                   /\ ListOf(k)[i].rank = IF i = 1 THEN <<"B", "e", "s", "t">>
                                          ELSE <<"A", "l", "t", "e", "r", "n", "a", "t", "i", "v", "e">>
            /\ \A i, j \in DOMAIN ListOf(k) :
                   /\ ListOf(k)[i].ref_type = ListOf(k)[j].ref_type
                   /\ ListOf(k)[i].ref_id = ListOf(k)[j].ref_id
                   => i = j

\* a section that writes an item, a spell and the item again has been
\* scanned: two entries, the item first
C17_Witness ==
    \E k \in InlineSections :
        /\ Len(WrittenRefs(DocSections(doc)[k])) = 3
        /\ WrittenRefs(DocSections(doc)[k])[1] = WrittenRefs(DocSections(doc)[k])[3]
        /\ Len(ListOf(k)) = 2
        /\ ListOf(k)[1].rank = <<"B", "e", "s", "t">>
        /\ ListOf(k)[2].rank = <<"A", "l", "t", "e", "r", "n", "a", "t", "i", "v", "e">>
        /\ ListOf(k)[2].order = 2

(***************************************************************************)
(* Specification ClassifySpec: the header test of extract_by_slot (lines   *)
(* 231-239) on one header name                                             *)
(***************************************************************************)
UpperChar(c) ==
    IF \E i \in DOMAIN LowerChars : LowerChars[i] = c
    THEN UpperChars[CHOOSE i \in DOMAIN LowerChars : LowerChars[i] = c]
    ELSE c

\* the letter-casings of a phrase: lower, upper, capitalized words, and
\* capitals at the even places
Casings(text) ==
    {text,
     [i \in DOMAIN text |-> UpperChar(text[i])],
     [i \in DOMAIN text |->
         IF i = 1 \/ (i > 1 /\ text[i - 1] \in {" ", "-"}) THEN UpperChar(text[i])
         ELSE text[i]],
     [i \in DOMAIN text |-> IF i % 2 = 0 THEN UpperChar(text[i]) ELSE text[i]]}

Spaces(n) == [i \in 1..n |-> " "]

\* every space of the phrase written as two
RECURSIVE Widen(_)
Widen(text) ==
    IF text = <<>> THEN <<>>
    ELSE IF Head(text) = " " THEN <<" ", " ">> \o Widen(Tail(text))
    ELSE <<Head(text)>> \o Widen(Tail(text))

\* the names guides give their sections, in lower case
HeaderPhrases ==
    {<<"w", "r", "i", "s", "t", "s">>, <<"f", "i", "n", "g", "e", "r">>, <<"o", "f", "f", " ", "h", "a", "n", "d">>, <<"o", "f", "f", "h", "a", "n", "d">>, <<"o", "f", "f", "-", "h", "a", "n", "d">>, <<"r", "i", "n", "g", "s">>, <<"h", "e", "a", "d">>,
     <<"n", "o", "t", "e", "s">>, <<"b", "e", "s", "t", " ", "r", "e", "d", " ", "g", "e", "m", "s">>, <<"m", "e", "t", "a", " ", "g", "e", "m">>, <<"b", "e", "s", "t", " ", "y", "e", "l", "l", "o", "w">>, <<"b", "l", "u", "e", " ", "g", "e", "m", "s">>,
     <<"c", "h", "e", "s", "t", " ", "e", "n", "c", "h", "a", "n", "t">>, <<"r", "i", "n", "g", " ", "e", "n", "c", "h", "a", "n", "t">>, <<"g", "l", "o", "v", "e", "s", " ", "e", "n", "c", "h", "a", "n", "t">>, <<"o", "f", "f", " ", "h", "a", "n", "d", " ", "e", "n", "c", "h", "a", "n", "t">>,
     <<"t", "r", "i", "n", "k", "e", "t", " ", "e", "n", "c", "h", "a", "n", "t">>, <<"n", "o", "t", "e", "s", " ", "e", "n", "c", "h", "a", "n", "t">>}

ForClauses == {<<>>, <<" ", "f", "o", "r", " ", "T", "a", "n", "k", "s">>}

\* a phrase in one casing, with its spaces single or double, padded with up
\* to MaxPad spaces on either side, with or without a "for ..." clause
HeaderNames(phrase) ==
    {Spaces(lead) \o body \o clause \o Spaces(trail) :
        lead \in 0..MaxPad, trail \in 0..MaxPad, clause \in ForClauses,
        body \in Casings(phrase) \cup Casings(Widen(phrase))}

ClassifyInit ==
    /\ class_phrase \in HeaderPhrases
    /\ class_header \in HeaderNames(class_phrase)
    /\ class_guide_type \in GuideTypes
    /\ class_slot = <<>>
    /\ class_kept = FALSE
    /\ cpc = "call"
    /\ MergeIdle
    /\ ChainIdle
    /\ SlotIdle
    /\ ExtractIdle
    /\ ParseIdle
    /\ BatchIdle
    /\ HeapIdle
    /\ DecodeIdle
    /\ CheckIdle

\* lines 233-239: the slot name of the header and whether its section is
\* looked at
ClassifyHeader ==
    /\ cpc = "call"
    /\ class_slot' = IF class_guide_type = "gems_enchants"
                     THEN _normalize_enhancement_bucket(class_header)
                     ELSE normalize_slot(class_header)
    /\ class_kept' = IF class_guide_type = "gems_enchants"
                     THEN class_slot' \in VALID_ENHANCEMENT_BUCKETS
                     ELSE class_slot' \in VALID_SLOTS
    /\ cpc' = "done"
    /\ UNCHANGED <<class_phrase, class_header, class_guide_type>>
    /\ UNCHANGED <<mergeVars, chainVars, slotVars, extractVars, parseVars, batchVars, heapVars, decodeVars, checkVars>>

ClassifyNext == ClassifyHeader

ClassifySpec == ClassifyInit /\ [][ClassifyNext]_vars

(***************************************************************************)
(* Claims about the names of sections                                      *)
(***************************************************************************)
\* the header is the phrase itself, in some letter-casing
Written(phrase) == Lower(class_header) = phrase

\* C18: in a bis guide, in any letter-casing, "wrists" is Wrist, "finger"
\* is Rings, and "off hand", "offhand" and "off-hand" are Off-Hand
C18_AliasTable ==
    cpc = "done" /\ class_guide_type = "bis" =>
        /\ Written(<<"w", "r", "i", "s", "t", "s">>) => class_slot = <<"W", "r", "i", "s", "t">>
        /\ Written(<<"f", "i", "n", "g", "e", "r">>) => class_slot = <<"R", "i", "n", "g", "s">>
        /\ Written(<<"o", "f", "f", " ", "h", "a", "n", "d">>) => class_slot = <<"O", "f", "f", "-", "H", "a", "n", "d">>
        /\ Written(<<"o", "f", "f", "h", "a", "n", "d">>) => class_slot = <<"O", "f", "f", "-", "H", "a", "n", "d">>
        /\ Written(<<"o", "f", "f", "-", "h", "a", "n", "d">>) => class_slot = <<"O", "f", "f", "-", "H", "a", "n", "d">>

\* the bucket a gem or enchant phrase stands for; <<>> for the other phrases
PhraseBucket(phrase) ==
    IF phrase = <<"b", "e", "s", "t", " ", "r", "e", "d", " ", "g", "e", "m", "s">> THEN <<"R", "e", "d">>
    ELSE IF phrase = <<"m", "e", "t", "a", " ", "g", "e", "m">> THEN <<"M", "e", "t", "a">>
    ELSE IF phrase = <<"b", "e", "s", "t", " ", "y", "e", "l", "l", "o", "w">> THEN <<"Y", "e", "l", "l", "o", "w">>
    ELSE IF phrase = <<"b", "l", "u", "e", " ", "g", "e", "m", "s">> THEN <<"B", "l", "u", "e">>
    ELSE IF phrase = <<"c", "h", "e", "s", "t", " ", "e", "n", "c", "h", "a", "n", "t">> THEN <<"C", "h", "e", "s", "t">>
    ELSE IF phrase = <<"r", "i", "n", "g", " ", "e", "n", "c", "h", "a", "n", "t">> THEN <<"R", "i", "n", "g", "s">>
    ELSE IF phrase = <<"g", "l", "o", "v", "e", "s", " ", "e", "n", "c", "h", "a", "n", "t">> THEN <<"H", "a", "n", "d", "s">>
    ELSE IF phrase = <<"o", "f", "f", " ", "h", "a", "n", "d", " ", "e", "n", "c", "h", "a", "n", "t">> THEN <<"O", "f", "f", "-", "H", "a", "n", "d">>
    ELSE IF phrase = <<"t", "r", "i", "n", "k", "e", "t", " ", "e", "n", "c", "h", "a", "n", "t">> THEN <<"T", "r", "i", "n", "k", "e", "t", "s">>
    ELSE <<>>

\* C19: in a gems_enchants guide a gem phrase gives its colour bucket, an
\* enchant phrase its slot, directly or by the slot alias of what stands
\* before " enchant", whatever the casing and the spacing; and a section
\* that is kept has a colour bucket or a canonical slot
C19_EnhancementBuckets ==
    cpc = "done" /\ class_guide_type = "gems_enchants" =>
        /\ class_kept =>
               class_slot \in {<<"M", "e", "t", "a">>, <<"R", "e", "d">>, <<"Y", "e", "l", "l", "o", "w">>, <<"B", "l", "u", "e">>} \cup VALID_SLOTS
        /\ Lower(Strip(CollapseWS(class_header))) = class_phrase
               /\ PhraseBucket(class_phrase) # <<>>
               => class_slot = PhraseBucket(class_phrase) /\ class_kept
        /\ class_phrase = <<"n", "o", "t", "e", "s", " ", "e", "n", "c", "h", "a", "n", "t">> => ~class_kept

\* "off hand enchant", padded and with double spaces, has been classified
C19_Witness ==
    /\ cpc = "done"
    /\ class_guide_type = "gems_enchants"
    /\ class_phrase = <<"o", "f", "f", " ", "h", "a", "n", "d", " ", "e", "n", "c", "h", "a", "n", "t">>
    /\ Len(class_header) > Len(class_phrase) + 2
    /\ class_slot = <<"O", "f", "f", "-", "H", "a", "n", "d">>
    /\ class_kept

(***************************************************************************)
(* Claims about the weapon rules of section_slot_ids (SlotSpec)            *)
(***************************************************************************)
\* the heading and the body, as the cues are looked for in either
HeadingAndBody == Lower(heading) \o <<"|">> \o Lower(section_html)

GenericWeapon == AnyIn({<<"w", "e", "a", "p", "o", "n">>, <<"h", "a", "n", "d", "e", "d">>}, Lower(heading))

\* C20: when weapon logic applies without dual-wield phrasing, an off-hand
\* cue alone classifies the section to Off-Hand (17) only, and a main-hand
\* cue alone, or a "weapon" or "handed" heading with no off-hand cue in the
\* heading or the body, to Main-Hand (16) only
C20_SingleHand ==
    spc = "ret" /\ WeaponLogicApplies(heading)
                /\ ~AnyIn(DualWieldPhrases, Lower(heading)) =>
        /\ AnyIn(OffHandCues, HeadingAndBody) /\ ~AnyIn(MainHandCues, HeadingAndBody)
               /\ ~GenericWeapon
               => target_slots = <<17>>
        /\ ~AnyIn(OffHandCues, HeadingAndBody)
               /\ (AnyIn(MainHandCues, HeadingAndBody) \/ GenericWeapon)
               => target_slots = <<16>>

(***************************************************************************)
(* Specification TaxonomySpec: one heading given to section_slot_ids and   *)
(* to the header test of extract_by_slot                                   *)
(***************************************************************************)
MaxCueWords == 2

\* the words of relic and ranged headings, and words of other rules
CueWords ==
    {<<"I", "d", "o", "l">>, <<"I", "d", "o", "l", "s">>, <<"R", "e", "l", "i", "c">>, <<"T", "o", "t", "e", "m">>, <<"T", "o", "t", "e", "m", "s">>,
     <<"L", "i", "b", "r", "a", "m">>, <<"L", "i", "b", "r", "a", "m", "s">>, <<"R", "a", "n", "g", "e", "d">>, <<"W", "a", "n", "d">>, <<"W", "A", "N", "D", "S">>,
     <<"W", "e", "a", "p", "o", "n", "s">>, <<"O", "f", "f", "-", "H", "a", "n", "d">>, <<"B", "a", "c", "k", "u", "p">>, <<"H", "e", "a", "d">>, <<"G", "l", "o", "v", "e", "s">>,
     <<"f", "o", "r", " ", "T", "a", "n", "k", "s">>}

CueHeadings == {JoinWords(ws) : ws \in SeqsUpTo(CueWords, MaxCueWords)} \ {<<>>}

TaxonomyInit ==
    /\ heading \in CueHeadings
    /\ section_html \in {<<>>, <<"O", "f", "f", "-", "H", "a", "n", "d">>}
    /\ target_slots = <<>>
    /\ spc = "call"
    /\ class_phrase = Lower(heading)
    /\ class_header = heading
    /\ class_guide_type \in GuideTypes
    /\ class_slot = <<>>
    /\ class_kept = FALSE
    /\ cpc = "call"
    /\ MergeIdle
    /\ ChainIdle
    /\ ExtractIdle
    /\ ParseIdle
    /\ BatchIdle
    /\ HeapIdle
    /\ DecodeIdle
    /\ CheckIdle

TaxonomyNext ==
    \/ SlotCall
    \/ ClassifyHeader

TaxonomySpec == TaxonomyInit /\ [][TaxonomyNext]_vars

(***************************************************************************)
(* Claims about the relic and ranged headings (TaxonomySpec)               *)
(***************************************************************************)
RelicCues == {<<"i", "d", "o", "l">>, <<"r", "e", "l", "i", "c">>, <<"t", "o", "t", "e", "m">>, <<"l", "i", "b", "r", "a", "m">>, <<"r", "a", "n", "g", "e", "d">>, <<"w", "a", "n", "d">>}

\* the cues section_slot_ids tests before the relic cues
BeforeRelicCues == {<<"h", "e", "a", "d">>, <<"n", "e", "c", "k">>, <<"s", "h", "o", "u", "l", "d", "e", "r">>, <<"b", "a", "c", "k">>, <<"c", "l", "o", "a", "k">>, <<"c", "h", "e", "s", "t">>, <<"w", "r", "i", "s", "t">>}

\* the header, without a "for ..." clause, is the word in some casing
HeaderIs(word) ==
    \/ Lower(class_header) = word
    \/ /\ Len(class_header) > Len(word) + 5
       /\ Lower(SubSeq(class_header, 1, Len(word) + 5)) = word \o <<" ", "f", "o", "r", " ">>

NamedRelicSlots ==
    /\ HeaderIs(<<"t", "o", "t", "e", "m">>) \/ HeaderIs(<<"t", "o", "t", "e", "m", "s">>) => class_slot = <<"T", "o", "t", "e", "m", "s">>
    /\ HeaderIs(<<"i", "d", "o", "l">>) \/ HeaderIs(<<"i", "d", "o", "l", "s">>) => class_slot = <<"I", "d", "o", "l", "s">>
    /\ HeaderIs(<<"l", "i", "b", "r", "a", "m">>) \/ HeaderIs(<<"l", "i", "b", "r", "a", "m", "s">>) => class_slot = <<"L", "i", "b", "r", "a", "m", "s">>

\* numeric ids on one side, slot names on the other
TaxonomiesApart ==
    /\ spc = "ret" => \A i \in DOMAIN target_slots : target_slots[i] \in 1..18
    /\ cpc = "done" /\ class_kept =>
           class_slot \in VALID_SLOTS \cup VALID_ENHANCEMENT_BUCKETS

\* C21 as stated: every heading that mentions idol, relic, totem, libram,
\* ranged or wand is classified to slot 18 by section_slot_ids, the totem,
\* idol and libram headings of a bis guide are named Totems, Idols and
\* Librams by normalize_slot, and neither classifier gives a value of the
\* other taxonomy
C21_RelicHeadingsCollapse ==
    /\ spc = "ret" /\ AnyIn(RelicCues, Lower(heading)) => target_slots = <<18>>
    /\ cpc = "done" /\ class_guide_type = "bis" => NamedRelicSlots
    /\ TaxonomiesApart

\* C21 amended: a heading that mentions idol, relic, totem, libram, ranged
\* or wand and none of head, neck, shoulder, back, cloak, chest and wrist
\* is classified to slot 18 alone by section_slot_ids; the rest as stated
C21_RelicHeadingsAfterArmor ==
    /\ spc = "ret" /\ AnyIn(RelicCues, Lower(heading))
                   /\ ~AnyIn(BeforeRelicCues, Lower(heading))
           => target_slots = <<18>>
    /\ cpc = "done" /\ class_guide_type = "bis" => NamedRelicSlots
    /\ TaxonomiesApart

\* "Totems for Tanks" went to 18 and was named Totems
C21_Witness ==
    /\ spc = "ret"
    /\ cpc = "done"
    /\ class_guide_type = "bis"
    /\ heading = <<"T", "o", "t", "e", "m", "s", " ", "f", "o", "r", " ", "T", "a", "n", "k", "s">>
    /\ target_slots = <<18>>
    /\ class_slot = <<"T", "o", "t", "e", "m", "s">>
    /\ class_kept

(***************************************************************************)
(* Claims about sections without items (ExtractSpec)                       *)
(***************************************************************************)
\* written section k has a slot, no row that ranks items and no reference
EmptySections ==
    {k \in SlotSections :
        /\ RankedRows(DocSections(doc)[k]) = <<>>
        /\ ~HasRef(DocSections(doc)[k])}

\* C22: a classified section without table rows and without inline
\* references raises no error and its slot is in the results with an empty
\* item list
C22_EmptySlotRecorded ==
    \A k \in EmptySections :
        \E g \in DOMAIN grouped :
            /\ grouped[g].slot = DocSlot(DocSections(doc)[k].name, arg_guide_type)
            /\ grouped[g].items = <<>>

(***************************************************************************)
(* Claims about the slot-like headers of a guide record (BatchSpec)        *)
(***************************************************************************)
\* the classifier of extract_by_slot gives the header no valid slot
Discarded(name, type) ==
    IF type = "gems_enchants"
    THEN _normalize_enhancement_bucket(name) \notin VALID_ENHANCEMENT_BUCKETS
    ELSE normalize_slot(name) \notin VALID_SLOTS

\* the names of the headers of either level in the payload of a file
HeaderNamesOf(f) ==
    LET hs == Headers(extract_markup(f.text).toks)
    IN  {Strip(hs[j].name) : j \in DOMAIN hs}

FileOf(record) == CHOOSE f \in input_dir : JoinWords(f.name) = record.file

\* C23: the unparsed_slot_like_headers of an extracted guide are exactly
\* the headers, of either level, that the classifier discarded and that
\* resemble a gear term; no header classified into a valid slot is among
\* them
C23_UnparsedSlotLikeHeaders ==
    Loaded =>
        \A i \in DOMAIN guides :
            guides[i].parse_error = <<>> =>
                Range(guides[i].unparsed_slot_like_headers) =
                    {h \in HeaderNamesOf(FileOf(guides[i])) :
                        /\ Discarded(h, guides[i].guide_type)
                        /\ SLOT_HINT_search(h)}

(***************************************************************************)
(* Claims about the bounds of a section (ExtractSpec)                      *)
(***************************************************************************)
\* a is b with some of its elements left out
RECURSIVE IsSubseq(_, _)
IsSubseq(a, b) ==
    IF a = <<>> THEN TRUE
    ELSE IF b = <<>> THEN FALSE
    ELSE IF Head(a) = Head(b) THEN IsSubseq(Tail(a), Tail(b))
    ELSE IsSubseq(a, Tail(b))

EntryRefs(items) == [i \in DOMAIN items |-> <<items[i].ref_type, items[i].ref_id>>]

\* the written sections that give a result, once the extraction is done
YieldingSections ==
    IF epc # "done" THEN {}
    ELSE {k \in DOMAIN DocSections(doc) : Yields(DocSections(doc)[k], arg_guide_type)}

\* C24: the results follow the headers of both levels in document order,
\* and the entries of a section are references written between its header
\* and the next header of either level, classified or not, in the order
\* they are written: no reference from behind a later header is among them
C24_SectionsEndAtNextHeader ==
    \A k \in YieldingSections :
        /\ grouped[ResultIndex(DocSections(doc), k, arg_guide_type)].slot
               = DocSlot(DocSections(doc)[k].name, arg_guide_type)
        /\ IsSubseq(EntryRefs(ListOf(k)), WrittenRefs(DocSections(doc)[k]))

\* a Head section (h3) with one ranked item, followed by a section of the
\* other level (Rings, h4) or without slot (Notes) that holds a reference
C24_Witness ==
    /\ 1 \in YieldingSections
    /\ Len(DocSections(doc)) = 2
    /\ DocSections(doc)[1].name = <<"H", "e", "a", "d">>
    /\ DocSections(doc)[2].name \in {<<"R", "i", "n", "g", "s">>, <<"N", "o", "t", "e", "s">>}
    /\ HasRef(DocSections(doc)[2])
    /\ Len(ListOf(1)) = 1

(***************************************************************************)
(* extract_wowhead_guide_markup.extract_print_html_payload                 *)
(***************************************************************************)
\* PRINT_HTML_RE.search of extract_wowhead_guide_markup from token from:
\* <<group(1)>> of the first printHtml call whose literal is followed by ")"
RECURSIVE PrintHtmlParenSearch(_, _)
PrintHtmlParenSearch(script, from) ==
    LET i == FindKind(script, "printHtml", from)
        e == IF i = 0 \/ i + 1 > Len(script) \/ script[i + 1].k # "q" THEN 0
             ELSE LiteralEnd(script, i + 2)
    IN  IF i = 0 THEN <<>>
        ELSE IF e # 0 /\ e + 1 <= Len(script) /\ script[e + 1].k = "rparen"
        THEN <<SubSeq(script, i + 2, e - 1)>>
        ELSE PrintHtmlParenSearch(script, i + 1)

FallbackMinChars == 100

\* the number of  [^"\\]|\\.  units of a literal
RECURSIVE LiteralUnits(_)
LiteralUnits(toks) ==
    IF toks = <<>> THEN 0
    ELSE IF Head(toks).k = "bs" /\ Len(toks) >= 2
         THEN Len(TokText(toks[2])) + LiteralUnits(SubSeq(toks, 3, Len(toks)))
    ELSE Len(TokText(Head(toks))) + LiteralUnits(Tail(toks))

\* PRINT_HTML_FALLBACK_RE.search: <<group(1)>> of the first printHtml call
\* with a closed literal of FallbackMinChars units or more
RECURSIVE PrintHtmlFallbackSearch(_, _)
PrintHtmlFallbackSearch(script, from) ==
    LET i == FindKind(script, "printHtml", from)
        e == IF i = 0 \/ i + 1 > Len(script) \/ script[i + 1].k # "q" THEN 0
             ELSE LiteralEnd(script, i + 2)
    IN  IF i = 0 THEN <<>>
        ELSE IF e # 0 /\ LiteralUnits(SubSeq(script, i + 2, e - 1)) >= FallbackMinChars
        THEN <<SubSeq(script, i + 2, e - 1)>>
        ELSE PrintHtmlFallbackSearch(script, i + 1)

\* the five replacements of lines 47-53 and 58-64, in the order the code
\* chains them
PayloadUnescape(raw) ==
    ReplaceEscTok(
        ReplaceEscTok(
            ReplaceEscChar(
                ReplaceEscChar(
                    ReplaceEscChar(raw, "n", "\n"),
                    "r", "\r"),
                "t", "\t"),
            "q"),
        "bs")

\* extract_print_html_payload: <<payload>>, or <<>> for None
extract_print_html_payload(page) ==
    LET m == PrintHtmlParenSearch(page.script, 1)
        fb == PrintHtmlFallbackSearch(page.script, 1)
    IN  IF m # <<>> THEN <<PayloadUnescape(m[1])>>
        ELSE IF fb # <<>> THEN <<PayloadUnescape(fb[1])>>
        ELSE <<>>

(***************************************************************************)
(* Specification DecodeSpec: the three payload locators on one page whose  *)
(* printHtml literal is the JSON escape of a string                        *)
(***************************************************************************)
MaxPayload == 3

\* an ordinary character, the letter n, a slash, a backslash, a double
\* quote, a newline, a carriage return and a tab
PayloadChars ==
    {Txt(<<"a">>), Txt(<<"n">>), Txt(<<"/">>), Tok("bs"), Tok("q"),
     Txt(<<"\n">>), Txt(<<"\r">>), Txt(<<"\t">>)}

PayloadForms == {"paren", "guideBody"}

PayloadPage(text, form) ==
    [script |-> <<Tok("printHtml"), Tok("q")>> \o json_dumps(text) \o <<Tok("q")>>
                    \o (IF form = "paren" THEN <<Tok("rparen")>>
                        ELSE <<Tok("comma"), Tok("guideBody"), Tok("rparen")>>),
     addData |-> <<>>]

DecodeInit ==
    /\ payload_text \in SeqsUpTo(PayloadChars, MaxPayload)
    /\ payload_form \in PayloadForms
    /\ payload_page = PayloadPage(payload_text, payload_form)
    /\ decode_out = EmptyMap
    /\ MergeIdle
    /\ ChainIdle
    /\ SlotIdle
    /\ ExtractIdle
    /\ ParseIdle
    /\ BatchIdle
    /\ HeapIdle
    /\ ClassifyIdle
    /\ CheckIdle

\* decode_out with what the locator returned
WithResult(locator, result) ==
    [v \in DOMAIN decode_out \cup {locator} |->
        IF v = locator THEN result ELSE decode_out[v]]

\* extract_wowhead_items.extract_markup; <<>> when it raises
DecodeExtractMarkup ==
    /\ "extract_markup" \notin DOMAIN decode_out
    /\ \E r \in {extract_markup(payload_page)} :
           decode_out' = WithResult("extract_markup", IF r.ok THEN <<r.toks>> ELSE <<>>)
    /\ UNCHANGED <<payload_text, payload_form, payload_page>>
    /\ UNCHANGED <<mergeVars, chainVars, slotVars, extractVars, parseVars, batchVars, heapVars, classVars, checkVars>>

\* parse_wowhead_html.extract_guide_markup
DecodeGuideMarkup ==
    /\ "extract_guide_markup" \notin DOMAIN decode_out
    /\ decode_out' = WithResult("extract_guide_markup", extract_guide_markup(payload_page))
    /\ UNCHANGED <<payload_text, payload_form, payload_page>>
    /\ UNCHANGED <<mergeVars, chainVars, slotVars, extractVars, parseVars, batchVars, heapVars, classVars, checkVars>>

\* extract_wowhead_guide_markup.extract_print_html_payload
DecodePrintHtmlPayload ==
    /\ "extract_print_html_payload" \notin DOMAIN decode_out
    /\ decode_out' = WithResult("extract_print_html_payload",
                                extract_print_html_payload(payload_page))
    /\ UNCHANGED <<payload_text, payload_form, payload_page>>
    /\ UNCHANGED <<mergeVars, chainVars, slotVars, extractVars, parseVars, batchVars, heapVars, classVars, checkVars>>

DecodeNext ==
    \/ DecodeExtractMarkup
    \/ DecodeGuideMarkup
    \/ DecodePrintHtmlPayload

DecodeSpec == DecodeInit /\ [][DecodeNext]_vars

(***************************************************************************)
(* Claims about the decoding of the payload (DecodeSpec)                   *)
(***************************************************************************)
\* C25: whichever locator finds the literal returns the string the literal
\* was escaped from, so any two locators that find it agree
C25_DecodeInvertsEscape ==
    /\ \A v \in DOMAIN decode_out :
           decode_out[v] # <<>> => decode_out[v][1] = payload_text
    /\ \A v, w \in DOMAIN decode_out :
           decode_out[v] # <<>> /\ decode_out[w] # <<>> => decode_out[v] = decode_out[w]

(***************************************************************************)
(* check_suspicious_data.check_spec for one spec (lines 24-144)            *)
(***************************************************************************)
CORE_SLOTS == {1, 3, 5, 7, 10, 16}

\* summarize_phase: slot_count, ranked_total, singleton_slots
summarize_phase(slot_map) ==
    <<Cardinality(DOMAIN slot_map),
      MapEntries(slot_map),
      Cardinality({s \in DOMAIN slot_map : Len(slot_map[s]) <= 1})>>

Finding(type, at) == [type |-> type, phase |-> at]

\* lines 66-104: the findings of one phase about its map
PhaseFindings(slot_map, at, min_slots) ==
    LET sm == summarize_phase(slot_map)
        slots == sm[1]
        singleton == sm[3]
    IN  (IF slots = 0 THEN <<Finding("empty_phase_parse", at)>>
         ELSE IF slots < min_slots THEN <<Finding("low_slot_coverage", at)>>
         ELSE <<>>)
        \o (IF slots > 0 /\ singleton * 10 >= 6 * slots
            THEN <<Finding("many_singleton_slots", at)>> ELSE <<>>)
        \o (IF at = 5 /\ ~(CORE_SLOTS \subseteq DOMAIN slot_map)
            THEN <<Finding("missing_core_slots_p5", at)>> ELSE <<>>)

\* mutation: the drop is measured the other way round
DropFindings_Reversed(maps, at, slot_drop, rank_drop_pct) ==
    LET prev == IF at - 1 \in DOMAIN maps THEN maps[at - 1] ELSE EmptyMap
        curr == IF at \in DOMAIN maps THEN maps[at] ELSE EmptyMap
        p == summarize_phase(prev)
        c == summarize_phase(curr)
    IN  IF prev = EmptyMap \/ curr = EmptyMap THEN <<>>
        ELSE (IF c[1] - p[1] > slot_drop
              THEN <<Finding("slot_drop_between_phases", at)>> ELSE <<>>)
             \o (IF p[2] > 0 /\ (c[2] - p[2]) * 100 > rank_drop_pct * p[2]
                 THEN <<Finding("ranked_item_drop_between_phases", at)>> ELSE <<>>)

\* lines 107-134: the findings of one phase about the drop from the phase
\* before; drop_pct > max_rank_drop_pct with both sides times 100 * prev_ranks
DropFindings(maps, at, slot_drop, rank_drop_pct) ==
    LET prev == IF at - 1 \in DOMAIN maps THEN maps[at - 1] ELSE EmptyMap
        curr == IF at \in DOMAIN maps THEN maps[at] ELSE EmptyMap
        p == summarize_phase(prev)
        c == summarize_phase(curr)
    IN  IF prev = EmptyMap \/ curr = EmptyMap THEN <<>>
        ELSE (IF p[1] - c[1] > slot_drop
              THEN <<Finding("slot_drop_between_phases", at)>> ELSE <<>>)
             \o (IF p[2] > 0 /\ (p[2] - c[2]) * 100 > rank_drop_pct * p[2]
                 THEN <<Finding("ranked_item_drop_between_phases", at)>> ELSE <<>>)

(***************************************************************************)
(* Specification CheckSpec: check_spec on the guides of one spec           *)
(***************************************************************************)
MaxCheckEntries == 2

CheckSlotIds == {1, 2}     \* Head, Neck
CheckItemIds == {1, 2}

\* what parse_guide_slots can return: no empty list, no duplicate in a list
CheckGuideMaps ==
    {m \in UNION {[D -> SeqsUpTo(CheckItemIds, MaxCheckEntries)] : D \in SUBSET CheckSlotIds} :
        /\ \A s \in DOMAIN m : m[s] # <<>> /\ NoDup(m[s])
        /\ MapEntries(m) <= MaxCheckEntries}

CheckInit ==
    /\ min_slot_count \in {2}
    /\ max_slot_drop \in {0, 2}
    /\ max_rank_drop_pct \in {0, 35}
    /\ chk_phase = 1
    /\ chk_prev_slot_map = EmptyMap
    /\ phase_maps = EmptyMap
    /\ findings = <<>>
    /\ chk_pc = "loop"
    /\ MergeIdle
    /\ ChainIdle
    /\ SlotIdle
    /\ ExtractIdle
    /\ ParseIdle
    /\ BatchIdle
    /\ HeapIdle
    /\ ClassifyIdle
    /\ DecodeIdle

\* lines 38-48: no guide file is mapped for the phase
CheckNoPath ==
    /\ chk_pc = "loop"
    /\ findings' = Append(findings, Finding("missing_phase_file", chk_phase))
    /\ chk_phase' = chk_phase + 1
    /\ chk_pc' = IF chk_phase = NumPhases THEN "compare" ELSE "loop"
    /\ UNCHANGED <<min_slot_count, max_slot_drop, max_rank_drop_pct, chk_prev_slot_map, phase_maps>>
    /\ UNCHANGED <<mergeVars, chainVars, slotVars, extractVars, parseVars, batchVars, heapVars, classVars, decodeVars>>

\* lines 49-59: the mapped file does not exist
CheckNoHtml ==
    /\ chk_pc = "loop"
    /\ findings' = Append(findings, Finding("missing_phase_html", chk_phase))
    /\ chk_phase' = chk_phase + 1
    /\ chk_pc' = IF chk_phase = NumPhases THEN "compare" ELSE "loop"
    /\ UNCHANGED <<min_slot_count, max_slot_drop, max_rank_drop_pct, chk_prev_slot_map, phase_maps>>
    /\ UNCHANGED <<mergeVars, chainVars, slotVars, extractVars, parseVars, batchVars, heapVars, classVars, decodeVars>>

\* lines 61-104: the guide is parsed, merged and looked at
CheckPhase ==
    /\ chk_pc = "loop"
    /\ \E parsed \in CheckGuideMaps :
       \E slot_map \in {IF chk_phase > 1 THEN merge_slot_maps(chk_prev_slot_map, parsed)
                        ELSE parsed} :
           /\ MapEntries(slot_map) <= MaxCheckEntries
           /\ phase_maps' = [p \in DOMAIN phase_maps \cup {chk_phase} |->
                                IF p = chk_phase THEN slot_map ELSE phase_maps[p]]
           /\ chk_prev_slot_map' = slot_map
           /\ findings' = findings \o PhaseFindings(slot_map, chk_phase, min_slot_count)
    /\ chk_phase' = chk_phase + 1
    /\ chk_pc' = IF chk_phase = NumPhases THEN "compare" ELSE "loop"
    /\ UNCHANGED <<min_slot_count, max_slot_drop, max_rank_drop_pct>>
    /\ UNCHANGED <<mergeVars, chainVars, slotVars, extractVars, parseVars, batchVars, heapVars, classVars, decodeVars>>

\* lines 106-144: the second loop, over phases 2 to 5, and the return;
\* the value returned holds findings when there is any
CheckCompare ==
    /\ chk_pc = "compare"
    /\ findings' = findings
           \o DropFindings(phase_maps, 2, max_slot_drop, max_rank_drop_pct)
           \o DropFindings(phase_maps, 3, max_slot_drop, max_rank_drop_pct)
           \o DropFindings(phase_maps, 4, max_slot_drop, max_rank_drop_pct)
           \o DropFindings(phase_maps, 5, max_slot_drop, max_rank_drop_pct)
    /\ chk_pc' = "done"
    /\ UNCHANGED <<min_slot_count, max_slot_drop, max_rank_drop_pct, chk_phase,
                   chk_prev_slot_map, phase_maps>>
    /\ UNCHANGED <<mergeVars, chainVars, slotVars, extractVars, parseVars, batchVars, heapVars, classVars, decodeVars>>

CheckNext ==
    \/ CheckNoPath
    \/ CheckNoHtml
    \/ CheckPhase
    \/ CheckCompare

CheckSpec == CheckInit /\ [][CheckNext]_vars

(***************************************************************************)
(* Claims about the drop from one phase to the next (CheckSpec)            *)
(***************************************************************************)
\* C26: a phase from 2 on that has a map holds every slot of the map of the
\* phase before it and, in each, every item of that map's list; so neither
\* the number of slots nor the number of ranked items falls from one phase
\* to the next, and check_spec reports no slot_drop_between_phases and no
\* ranked_item_drop_between_phases
C26_NoDropBetweenPhases ==
    /\ \A k \in DOMAIN phase_maps :
           k >= 2 /\ k - 1 \in DOMAIN phase_maps =>
               /\ \A s \in DOMAIN phase_maps[k - 1] :
                      /\ s \in DOMAIN phase_maps[k]
                      /\ Range(phase_maps[k - 1][s]) \subseteq Range(phase_maps[k][s])
               /\ summarize_phase(phase_maps[k - 1])[1] <= summarize_phase(phase_maps[k])[1]
               /\ summarize_phase(phase_maps[k - 1])[2] <= summarize_phase(phase_maps[k])[2]
    /\ \A i \in DOMAIN findings :
           findings[i].type \notin {"slot_drop_between_phases",
                                    "ranked_item_drop_between_phases"}

\* check_spec has returned for a spec whose phase 2 guide names a slot
\* that phase 1 lacks, and whose phase 3 guide names nothing
C26_Witness ==
    /\ chk_pc = "done"
    /\ {1, 2, 3} \subseteq DOMAIN phase_maps
    /\ DOMAIN phase_maps[1] = {1}
    /\ DOMAIN phase_maps[2] = {1, 2}
    /\ phase_maps[3] = phase_maps[2]

(***************************************************************************)
(* Claims about the phases the loop records                                *)
(***************************************************************************)
\* the last phase recorded so far, 0 when none is
LastRecorded == IF DOMAIN profile = {} THEN 0
                ELSE CHOOSE k \in DOMAIN profile : \A j \in DOMAIN profile : j <= k

\* C27: a phase after the first whose guide is missing or yields no slot is
\* recorded with exactly the merged map of the phase recorded last before it,
\* when there is one; so the recorded phases are all the phases from the
\* first one with slot data up to the phase the loop has reached
C27_EmptyPhaseCarriesForward ==
    /\ [](\A j \in DOMAIN profile : \A k \in j..(phase - 1) : k \in DOMAIN profile)
    /\ [][(phase > 1 /\ phase <= NumPhases /\ LastRecorded > 0
              /\ phase_slots' = Append(phase_slots, EmptyMap))
            => /\ phase \in DOMAIN profile'
               /\ profile'[phase] = profile[LastRecorded]
               /\ \A k \in DOMAIN profile : profile'[k] = profile[k]]_vars

\* the first phase has no guide, the second has one, the third and the fifth
\* have none and are recorded with the map of the phase before them, which
\* the fourth phase has extended
C27_Witness ==
    /\ phase = NumPhases + 1
    /\ phase_slots[1] = EmptyMap
    /\ phase_slots[2] # EmptyMap
    /\ phase_slots[3] = EmptyMap
    /\ phase_slots[4] # EmptyMap
    /\ phase_slots[5] = EmptyMap
    /\ DOMAIN profile = 2..NumPhases
    /\ profile[3] = profile[2]
    /\ profile[4] # profile[3]
    /\ profile[5] = profile[4]

(***************************************************************************)
(* Claims about the sections of one guide that name the same slot          *)
(***************************************************************************)
\* the written sections that name slot s and refer to at least one item
YieldingFor(secs, s) ==
    {k \in DOMAIN secs : s \in WrittenSlots(secs[k].name) /\ WrittenItems(secs[k]) # <<>>}

\* the numeric slot ids
NumericSlots == 1..18

\* C28: when several sections of a guide name the same numeric slot,
\* parse_guide_slots keeps for the slot the ranked list of the last of them
\* that yielded an item, and nothing of the earlier ones; a section that
\* yields no item leaves the list of the slot as it was
C28_LastYieldingSectionWins ==
    ppc = "ret" =>
        LET secs == DocSections(guide_doc)
        IN  \A s \in NumericSlots :
                LET yielding == YieldingFor(secs, s)
                IN  IF yielding = {} THEN s \notin DOMAIN slot_to_items
                    ELSE /\ s \in DOMAIN slot_to_items
                         /\ slot_to_items[s]
                                = WrittenItems(secs[CHOOSE k \in yielding :
                                                        \A j \in yielding : j <= k])

\* two sections name the head slot, each with a list of its own, and the
\* slot holds the list of the second
C28_Witness ==
    /\ ppc = "ret"
    /\ LET secs == DocSections(guide_doc)
       IN  /\ YieldingFor(secs, 1) = {1, 2}
           /\ WrittenItems(secs[1]) = <<2>>
           /\ WrittenItems(secs[2]) = <<1>>
           /\ slot_to_items[1] = <<1>>

(***************************************************************************)
(* Specification PairedSpec: guides with Rings and Trinkets sections are   *)
(* parsed one after the other, and the map of each is merged with the map  *)
(* carried along, as the prior or as the current argument                  *)
(***************************************************************************)
PairedHeaders == {h \in GuideHeaders : h.name \in {<<"R", "i", "n", "g", "s">>, <<"T", "r", "i", "n", "k", "e", "t", "s">>}}
PairedSectionForms == {<<h>> \o body : h \in PairedHeaders, body \in GuideBodies}
PairedDocs == {Concat(ss) : ss \in SeqsUpTo(PairedSectionForms, MaxSections)}
PairedForms == {"markup", "noscript"}

\* no guide is read yet, and the map carried along is empty
PairedInit ==
    /\ guide_doc = <<>>
    /\ page_form = ""
    /\ guide_page = <<>>
    /\ slot_to_items = EmptyMap
    /\ ppc = "call"
    /\ prev_slots = EmptyMap
    /\ curr_slots = EmptyMap
    /\ merged = EmptyMap
    /\ mpc = "call"
    /\ ChainIdle
    /\ SlotIdle
    /\ ExtractIdle
    /\ BatchIdle
    /\ HeapIdle
    /\ ClassifyIdle
    /\ DecodeIdle
    /\ CheckIdle

\* a guide is read and parse_guide_slots is called on it
PairedParse ==
    /\ ppc = "call"
    /\ \E d \in PairedDocs, form \in PairedForms :
           \E page \in {GuidePage(d, form)} :
               /\ guide_doc' = d
               /\ page_form' = form
               /\ guide_page' = page
               /\ slot_to_items' = parse_guide_slots(page)
    /\ ppc' = "ret"
    /\ UNCHANGED <<mergeVars, chainVars, slotVars, extractVars, batchVars, heapVars, classVars, decodeVars, checkVars>>

\* merge_slot_maps on the map carried along and the map of the guide, in
\* one order or the other
PairedMerge ==
    /\ ppc = "ret"
    /\ mpc = "call"
    /\ \E args \in {<<prev_slots, slot_to_items>>, <<slot_to_items, prev_slots>>} :
           /\ prev_slots' = args[1]
           /\ curr_slots' = args[2]
           /\ merged' = merge_slot_maps(args[1], args[2])
    /\ mpc' = "ret"
    /\ UNCHANGED <<chainVars, slotVars, extractVars, parseVars, batchVars, heapVars, classVars, decodeVars, checkVars>>

\* the merged map is carried along to the next guide
PairedNextGuide ==
    /\ mpc = "ret"
    /\ prev_slots' = merged
    /\ curr_slots' = EmptyMap
    /\ merged' = EmptyMap
    /\ mpc' = "call"
    /\ guide_doc' = <<>>
    /\ page_form' = ""
    /\ guide_page' = <<>>
    /\ slot_to_items' = EmptyMap
    /\ ppc' = "call"
    /\ UNCHANGED <<chainVars, slotVars, extractVars, batchVars, heapVars, classVars, decodeVars, checkVars>>

PairedNext ==
    \/ PairedParse
    \/ PairedMerge
    \/ PairedNextGuide

PairedSpec == PairedInit /\ [][PairedNext]_vars

(***************************************************************************)
(* Claims about the two ring slots and the two trinket slots               *)
(***************************************************************************)
\* slots a and b are both absent from m, or hold the same list
SamePair(m, a, b) ==
    /\ a \in DOMAIN m <=> b \in DOMAIN m
    /\ a \in DOMAIN m => m[a] = m[b]

\* C29: in every map parse_guide_slots returns, and in every map a chain of
\* merges of such maps takes or returns, slots 11 and 12 are both absent or
\* hold the same ranked list, and so are slots 13 and 14
C29_PairedSlotsAgree ==
    \A m \in {slot_to_items, prev_slots, curr_slots, merged} :
        SamePair(m, 11, 12) /\ SamePair(m, 13, 14)

\* a merge of two maps with rings has returned a ring list that neither of
\* them had, and a trinket list that differs from it
C29_Witness ==
    /\ mpc = "ret"
    /\ {11, 12} \subseteq DOMAIN prev_slots \cap DOMAIN curr_slots
    /\ {11, 12, 13, 14} \subseteq DOMAIN merged
    /\ merged[11] = merged[12]
    /\ merged[11] \notin {prev_slots[11], curr_slots[11]}
    /\ merged[13] = merged[14]
    /\ merged[13] # merged[11]

(***************************************************************************)
(* Claims about the order numbers of the rows of a section                 *)
(***************************************************************************)
\* the order values of the entries of a list
OrdersOf(items) == {items[i].order : i \in DOMAIN items}

\* C30: in the entry extract_by_slot returns for a section with ranked rows,
\* the order values are exactly 1..k, k being the number of rows that
\* produced entries, and the r-th such row of the section has order r,
\* whichever table of the section it is in and whatever rows were skipped
\* before it
C30_OrdersAreOneToK ==
    \A k \in TableSections :
        LET rows == RankedRows(DocSections(doc)[k])
            items == ListOf(k)
        IN  /\ OrdersOf(items) = 1..Len(rows)
            /\ Len(items) = EntriesBefore(rows, Len(rows) + 1)
            /\ \A r \in DOMAIN rows :
                   \A e \in Range(RowSlice(items, rows, r)) : e.order = r

\* a section of two tables with five rows, three of them skipped, has been
\* extracted: the ranked row of the second table has order 2
C30_Witness ==
    /\ doc \in TwoTableDocs
    /\ TableSections = {1}
    /\ Len(SectionRows(DocSections(doc)[1])) = 5
    /\ Len(RankedRows(DocSections(doc)[1])) = 2
    /\ [i \in DOMAIN ListOf(1) |-> ListOf(1)[i].order] = <<1, 2, 2>>

====
